---------------------------- MODULE Spec2Model ----------------------------
(***************************************************************************)
(* A model of the PRNet training/evaluation harness (main.py, model.py).   *)
(*                                                                         *)
(* Fourteen specifications share one set of variables:                     *)
(*   Spec         the driver: _init_, main(), PRNet construction, train()  *)
(*                and the epoch/batch steps it drives                      *)
(*   SpecPredict  PRNet.predict, one loop iteration per step               *)
(*   SpecCycle    cycle_consistency applied to bounded (R, t) batches      *)
(*   SpecSVD      the weight guard and the weighted centroid of            *)
(*                SVDHead.forward on bounded batches                       *)
(*   SpecKabsch   the rotation SVDHead.forward builds from SVD factors     *)
(*   SpecPersist  a constructed PRNet under optimizer steps, save, load,   *)
(*                get_state and set_state                                  *)
(*   SpecTemp     the clamp of TemperatureNet.forward                      *)
(*   SpecKnn      knn on bounded point clouds                              *)
(*   SpecSchedule the learning-rate schedule of train()                    *)
(*   SpecLoss     the loss accumulation of _train_one_batch and            *)
(*                _test_one_batch                                          *)
(*   SpecEpochMean the averages _train_one_epoch and _test_one_epoch       *)
(*                record                                                   *)
(*   SpecKeypoint KeyPointNet.forward                                      *)
(*   SpecLogger   Logger construction, write and close over runs           *)
(*   SpecConfig   argparse, ACPNet.__init__ and the head's forward         *)
(*                branches                                                 *)
(* The variables a specification does not use stay at their idle values.   *)
(***************************************************************************)
EXTENDS Integers, Sequences, FiniteSets, TLC

VARIABLES
    \* ---- the driver (main.py) and the PRNet object it owns
    args,              \* parsed command line: eval, model_path, epochs, n_iters
    loaders,           \* number of batches the train / test loader yields
    device_count,      \* torch.cuda.device_count()
    fs,                \* checkpoint files: path -> saved state dict or NoFile
    pc,                \* position in main() / train()
    exc,               \* the exception that ended the run, "none" otherwise
    stdout,            \* lines printed
    log,               \* lines of checkpoints/<exp_name>/log
    acpnet,            \* PRNet.acpnet: wrapped in DataParallel?, parameters
    training,          \* nn.Module.training of the model
    opt,               \* calls received by the optimizer and by autograd
    calls,             \* calls made by the last _train_one_batch, in order
    scheduler,         \* scheduler.step() calls made by train()
    epoch,             \* loop variable of train()
    batch,             \* batches consumed in the running epoch
    num_examples,      \* num_examples of the running epoch
    info_test,         \* record returned by the last _test_one_epoch
    info_test_best,    \* info_test_best of train()
    saves,             \* torch.save calls made, in order
    train_calls,       \* number of calls of train()
    dirs,              \* the directories under checkpoints/ that exist
    backups,           \* the files *.backup in checkpoints/<exp_name>/
    my_iter,           \* SVDHead.my_iter, the head's diagnostic counter
    \* ---- a constructed PRNet under save / load
    last_op,           \* the last persistence call made and its path
    held_state,        \* the dict a get_state() call returned, and what it held then
    \* ---- PRNet.predict
    p_pc,              \* "loop" or "returned"
    p_n_iters,         \* the argument n_iters
    p_i,               \* iterations completed
    rotation_ab_pred,  \* accumulated rotation
    translation_ab_pred, \* accumulated translation
    p_src,             \* the working source cloud
    p_src0,            \* the source cloud as the caller passed it
    p_steps,           \* the (rotation_ab_pred_i, translation_ab_pred_i) self.forward returned
    \* ---- cycle_consistency
    cc_in,             \* the batch of (rotation_ab, translation_ab, rotation_ba, translation_ba)
    cc_out,            \* the value returned, <<>> before the call
    \* ---- SVDHead.forward
    svd_in,            \* relu(tanh(logits)) per example and point
    svd_weights,       \* weights after the degenerate-weight guard
    svd_pc,            \* "input" or "weighted"
    svd_src,           \* src: per example its points
    svd_srcm,          \* srcm: per example the weighted centroid, <<>> before
    \* ---- SVDHead.forward, from the SVD factors to the rotation
    kab_in,            \* on_gpu and, per example, the factors u, v of torch.svd
    kab_R,             \* R, <<>> before the loop has run
    \* ---- TemperatureNet.forward
    temp_in,           \* temp_factor and the value self.nn(residual) of one example
    temp_out,          \* the temperature returned, <<>> before the call
    \* ---- knn
    knn_in,            \* the arguments: x (one example, a point per position) and k
    knn_idx,           \* idx: per point the indices topk selected, <<>> before the call
    knn_exc,           \* the exception knn raised, "none" otherwise
    \* ---- train(): the learning-rate schedule
    sch_in,            \* args.epochs, and last_epoch as MultiStepLR leaves it when built
    sch_pc,            \* "step", "train" or "done"
    sch_epoch,         \* loop variable of train()
    last_epoch,        \* MultiStepLR.last_epoch
    lr_decays,         \* k: the optimizer's lr is the base lr times gamma^k
    sch_trained,       \* per training epoch run, the k it ran with
    \* ---- _train_one_batch / _test_one_batch: the loss accumulation
    loss_in,           \* which step, num_iters, discount_factor and the two loss weights
    loss_pc,           \* "loop", "returned" or "raised"
    loss_i,            \* iterations completed
    total_loss,        \* total_loss
    loss_terms,        \* per iteration: the raw terms and the discount applied
    \* ---- _train_one_epoch / _test_one_epoch: the epoch averages
    mean_in,           \* which epoch function, the dataset size and the batch size
    mean_pc,           \* "loop", "returned" or "raised"
    mean_batches,      \* per batch consumed: its position in the loader, size and losses
    mean_num_examples, \* num_examples
    mean_total,        \* total_loss, total_feature_alignment_loss, total_cycle_consistency_loss
    mean_info,         \* the record written to the log and returned
    \* ---- KeyPointNet.forward
    kp_in,             \* num_keypoints, the two clouds and their embeddings
    kp_pc,             \* "call", "returned" or "raised"
    kp_idx,            \* src_topk_idx and tgt_topk_idx
    kp_out,            \* the four tensors returned
    \* ---- Logger
    lg_in,             \* the log as earlier runs left it
    lg_file,           \* checkpoints/<exp_name>/log, a sequence of lines
    lg_args_file,      \* checkpoints/<exp_name>/args.txt
    lg_loggers,        \* per Logger object of this run: "none", "open" or "closed"
    lg_calls,          \* the calls made so far, oldest first
    lg_stdout,         \* what the calls printed
    \* ---- component choice: the command line, ACPNet.__init__, the head's forward
    cfg_in,            \* how the network is built: through main or directly, and from what
    cfg_pc,            \* "parse", "construct", "forward", "done", "exited" or "raised"
    cfg_args,          \* the args namespace
    cfg_built,         \* the components ACPNet.__init__ has assigned
    cfg_path           \* the branches the head's forward took

mainVars == <<args, loaders, device_count, fs, pc, exc, stdout, log, acpnet,
              training, opt, calls, scheduler, epoch, batch, num_examples,
              info_test, info_test_best, saves, train_calls, dirs, backups,
              my_iter>>
perVars == <<last_op, held_state>>
predVars ==
    <<p_pc, p_n_iters, p_i, rotation_ab_pred, translation_ab_pred, p_src, p_src0, p_steps>>
ccVars == <<cc_in, cc_out>>
svdVars == <<svd_in, svd_weights, svd_pc, svd_src, svd_srcm>>
kabVars == <<kab_in, kab_R>>
\* The variables of the component-level specifications added below.
tempVars == <<temp_in, temp_out>>
knnVars == <<knn_in, knn_idx, knn_exc>>
schVars == <<sch_in, sch_pc, sch_epoch, last_epoch, lr_decays, sch_trained>>
lossVars == <<loss_in, loss_pc, loss_i, total_loss, loss_terms>>
\* The variables of the specifications of the last part of the module.
meanVars == <<mean_in, mean_pc, mean_batches, mean_num_examples, mean_total, mean_info>>
kpVars == <<kp_in, kp_pc, kp_idx, kp_out>>
lgVars == <<lg_in, lg_file, lg_args_file, lg_loggers, lg_calls, lg_stdout>>
cfgVars == <<cfg_in, cfg_pc, cfg_args, cfg_built, cfg_path>>
ext2Vars == <<lossVars, meanVars, kpVars, lgVars, cfgVars>>
extVars == <<kabVars, tempVars, knnVars, schVars, ext2Vars>>
vars == <<mainVars, perVars, predVars, ccVars, svdVars, extVars>>

-----------------------------------------------------------------------------
(* Bounds of the model *)

MaxEpochs == 3
MaxIters == 2
MaxBatches == 2
MaxSteps == 2
MaxCcBatch == 2
MaxSvdBatch == 2
MaxPoints == 3

\* Average test losses an epoch may report: three ordered values, enough for
\* every pattern of improvement, tie and regression between epochs.
Losses == {1, 2, 3}
\* The average train loss decides nothing in train(): one value stands for it.
TrainLosses == {2}
\* One visible device, or more than one.
DeviceCounts == {1, 2}

\* --batch_size and --test_batch_size (defaults)
TrainBatchSize == 10
TestBatchSize == 4

-----------------------------------------------------------------------------
(* Files, state dicts and log records *)

NoFile == [keys |-> "absent", base |-> "none", steps |-> 0]

\* model.best.t7, model.<e>.t7 and the path given with --model_path
BestPath == <<"model.best.t7", 0>>
EpochPath(e) == <<"model.%d.t7", e>>
UserPath == <<"pretrained.t7", 0>>
Paths == {BestPath, UserPath} \cup {EpochPath(e) : e \in 0..(MaxEpochs - 1)}

Exists(path) == fs[path] # NoFile

\* Parameters as left by construction, and as found in a checkpoint written
\* by an earlier run; "steps" counts the optimizer steps applied since.
FreshParams == [base |-> "init", steps |-> 0]
PretrainedFile == [keys |-> "plain", base |-> "pretrained", steps |-> 0]

NoInfo == [stage |-> "none", epoch |-> 0, loss |-> 0]
ConfigLine == [stage |-> "config", epoch |-> 0, loss |-> 0]

-----------------------------------------------------------------------------
(* Persistence: PRNet.save / PRNet.load *)

\* nn.Module.state_dict(): the keys of a DataParallel wrapper carry the
\* prefix "module.", those of the bare orchestrator do not.
StateDict(net) ==
    [keys |-> IF net.wrapped THEN "module." ELSE "plain",
     base |-> net.base, steps |-> net.steps]

\* What PRNet.save hands to torch.save.
SavedDict(net, dc) ==
    IF dc > 1
    THEN [keys |-> "plain", base |-> net.base, steps |-> net.steps]
    ELSE StateDict(net)

\* PRNet.load: torch.load raises when the file is absent; load_state_dict
\* (strict) raises when the keys are not those of self.acpnet.
LoadError(net, file) ==
    IF file = NoFile THEN "FileNotFoundError"
    ELSE IF file.keys # StateDict(net).keys THEN "RuntimeError"
    ELSE "none"

Loaded(net, file) == [net EXCEPT !.base = file.base, !.steps = file.steps]

\* One torch.save call as recorded in saves.
SaveEvent(path, e, net, dc) == [path |-> path, epoch |-> e, dict |-> SavedDict(net, dc)]

\* Logger.write: one line appended to the log and echoed to standard output.
LoggerWrite(info) ==
    /\ log' = Append(log, info)
    /\ stdout' = Append(stdout, info.stage)

-----------------------------------------------------------------------------
(* main(): argument parsing is the choice of the initial state *)

ArgSets ==
    [eval : BOOLEAN, model_path : {"", "pretrained.t7"},
     epochs : 0..MaxEpochs, n_iters : 0..MaxIters]

NoOpt == [zero_grad |-> 0, forward |-> 0, backward |-> 0, step |-> 0]

NoOp == [op |-> "none", path |-> <<"", 0>>]
NoState == [held |-> FALSE, at |-> NoFile]
PerIdle == last_op = NoOp /\ held_state = NoState
PredIdle ==
    /\ p_pc = "idle" /\ p_n_iters = 0 /\ p_i = 0 /\ rotation_ab_pred = <<>>
    /\ translation_ab_pred = <<>> /\ p_src = <<>> /\ p_src0 = <<>> /\ p_steps = <<>>
CcIdle == cc_in = <<>> /\ cc_out = <<>>
SvdIdle ==
    /\ svd_in = <<>> /\ svd_weights = <<>> /\ svd_pc = "idle"
    /\ svd_src = <<>> /\ svd_srcm = <<>>
KabIdle == kab_in = <<>> /\ kab_R = <<>>
TempIdle == temp_in = <<>> /\ temp_out = <<>>
KnnIdle == knn_in = <<>> /\ knn_idx = <<>> /\ knn_exc = "none"
SchIdle ==
    /\ sch_in = <<>> /\ sch_pc = "idle" /\ sch_epoch = 0 /\ last_epoch = 0
    /\ lr_decays = 0 /\ sch_trained = <<>>
LossIdle ==
    /\ loss_in = <<>> /\ loss_pc = "idle" /\ loss_i = 0 /\ total_loss = <<>>
    /\ loss_terms = <<>>
MeanIdle ==
    /\ mean_in = <<>> /\ mean_pc = "idle" /\ mean_batches = <<>>
    /\ mean_num_examples = 0 /\ mean_total = <<>> /\ mean_info = <<>>
KpIdle == kp_in = <<>> /\ kp_pc = "idle" /\ kp_idx = <<>> /\ kp_out = <<>>
LgIdle ==
    /\ lg_in = <<>> /\ lg_file = <<>> /\ lg_args_file = <<>> /\ lg_loggers = <<>>
    /\ lg_calls = <<>> /\ lg_stdout = <<>>
CfgIdle ==
    /\ cfg_in = <<>> /\ cfg_pc = "idle" /\ cfg_args = <<>> /\ cfg_built = <<>>
    /\ cfg_path = <<>>
Ext2Idle == LossIdle /\ MeanIdle /\ KpIdle /\ LgIdle /\ CfgIdle
\* Every group of ext2Vars but the one named is idle / is left unchanged.
Ext2IdleExcept(g) ==
    /\ IF g = "loss" THEN TRUE ELSE LossIdle
    /\ IF g = "mean" THEN TRUE ELSE MeanIdle
    /\ IF g = "keypoint" THEN TRUE ELSE KpIdle
    /\ IF g = "logger" THEN TRUE ELSE LgIdle
    /\ IF g = "config" THEN TRUE ELSE CfgIdle
Ext2Frame(g) ==
    /\ IF g = "loss" THEN TRUE ELSE UNCHANGED lossVars
    /\ IF g = "mean" THEN TRUE ELSE UNCHANGED meanVars
    /\ IF g = "keypoint" THEN TRUE ELSE UNCHANGED kpVars
    /\ IF g = "logger" THEN TRUE ELSE UNCHANGED lgVars
    /\ IF g = "config" THEN TRUE ELSE UNCHANGED cfgVars
Ext1Idle == KabIdle /\ TempIdle /\ KnnIdle /\ SchIdle
ExtIdle == Ext1Idle /\ Ext2Idle

MainStart ==
    /\ args \in ArgSets
    /\ loaders \in [train : 0..MaxBatches, test : 0..MaxBatches]
    /\ device_count \in DeviceCounts
    /\ \E present \in SUBSET {BestPath, UserPath} :
          fs = [p \in Paths |-> IF p \in present THEN PretrainedFile ELSE NoFile]
    /\ pc = "_init_"
    /\ exc = "none"
    /\ stdout = <<>>
    /\ log = <<>>
    /\ acpnet = [wrapped |-> FALSE, base |-> "none", steps |-> 0]
    /\ training = TRUE
    /\ opt = NoOpt
    /\ calls = <<>>
    /\ scheduler = 0
    /\ epoch = 0
    /\ batch = 0
    /\ num_examples = 0
    /\ info_test = NoInfo
    /\ info_test_best = NoInfo
    /\ saves = <<>>
    /\ train_calls = 0
    /\ dirs = {}
    /\ backups = {}
    /\ my_iter = 1

Init == MainStart /\ PerIdle /\ PredIdle /\ CcIdle /\ SvdIdle /\ ExtIdle

Raise(e) == pc' = "raised" /\ exc' = e

\* The driver leaves the variables of the other specifications alone.
MainFrame == UNCHANGED <<perVars, predVars, ccVars, svdVars, extVars>>

\* The files of the directory main.py is run from.
WorkingDirectory == {"main.py", "model.py", "data.py"}

ExperimentDirs == {"checkpoints", "checkpoints/exp_name", "checkpoints/exp_name/models"}

\* The three os.system calls of _init_: the words after "cp", the last one
\* being the target checkpoints/<exp_name>/<file>.backup.
CopyCommands ==
    <<[sources |-> <<"main.py">>, target |-> "main.py.backup"],
      [sources |-> <<"model", ".py">>, target |-> "model.py.backup"],
      [sources |-> <<"data.py">>, target |-> "data.py.backup"]>>

\* cp SOURCE... TARGET creates TARGET when there is one source and it exists;
\* with several sources TARGET must be a directory, and a *.backup path is
\* none.  os.system returns cp's exit status and raises nothing.
Copied(commands, files) ==
    {commands[i].target : i \in {j \in DOMAIN commands :
        Len(commands[j].sources) = 1 /\ commands[j].sources[1] \in files}}

\* _init_(args): the experiment directories exist afterwards, and the three
\* copies have been attempted.
MainInitDirs ==
    /\ pc = "_init_"
    /\ MainFrame
    /\ dirs' = dirs \cup ExperimentDirs
    /\ backups' = backups \cup Copied(CopyCommands, WorkingDirectory)
    /\ pc' = "construct"
    /\ my_iter' = my_iter
    /\ UNCHANGED <<args, loaders, device_count, fs, exc, stdout, log, acpnet,
                   training, opt, calls, scheduler, epoch, batch, num_examples,
                   info_test, info_test_best, saves, train_calls>>

\* PRNet(args): two Logger constructions (PRNet's and ACPNet's) each append
\* and echo the configuration line; then load(model_path) when model_path is
\* not '', and only then the DataParallel wrap.
LoadsCheckpointInEval(a) == a.model_path # "" \/ a.eval

\* PRNet.__init__, "if self.model_path is not '':" before self.load
LoadsCheckpoint(a) == a.model_path # ""

PRNetInit ==
    /\ pc = "construct"
    /\ MainFrame
    /\ UNCHANGED <<dirs, backups, my_iter>>
    /\ log' = log \o <<ConfigLine, ConfigLine>>
    /\ stdout' = stdout \o <<"config", "config">>
    /\ LET built == [wrapped |-> FALSE, base |-> FreshParams.base, steps |-> FreshParams.steps]
           file == fs[UserPath]
       IN IF LoadsCheckpoint(args) /\ LoadError(built, file) # "none"
          THEN /\ Raise(LoadError(built, file))
               /\ acpnet' = built
          ELSE /\ pc' = "eval_check"
               /\ exc' = exc
               /\ acpnet' = [(IF LoadsCheckpoint(args) THEN Loaded(built, file) ELSE built)
                                EXCEPT !.wrapped = (device_count > 1)]
    /\ UNCHANGED <<args, loaders, device_count, fs, training, opt, calls,
                   scheduler, epoch, batch, num_examples, info_test,
                   info_test_best, saves, train_calls>>

\* The path main() tests in evaluation mode.  "args.model_path is ''" holds
\* exactly for the empty string (the interpreter keeps one empty string).
ResolvedPath(a) == IF a.model_path = "" THEN BestPath ELSE UserPath

\* main(), "if args.eval:" block.
MainEvalCheck ==
    /\ pc = "eval_check"
    /\ MainFrame
    /\ UNCHANGED <<dirs, backups, my_iter>>
    /\ IF args.eval /\ ~Exists(ResolvedPath(args))
       THEN /\ stdout' = Append(stdout, "can't find pretrained model")
            /\ pc' = "returned"
       ELSE /\ stdout' = stdout
            /\ pc' = "dispatch"
    /\ UNCHANGED <<args, loaders, device_count, fs, exc, log, acpnet, training,
                   opt, calls, scheduler, epoch, batch, num_examples, info_test,
                   info_test_best, saves, train_calls>>

TrainRequestedAlways(a) == TRUE

\* main(), "if not args.eval:".
TrainRequested(a) == ~a.eval

\* main() calls train(), which builds the optimizer and the schedule.
MainDispatch ==
    /\ pc = "dispatch"
    /\ MainFrame
    /\ UNCHANGED <<dirs, backups, my_iter>>
    /\ IF TrainRequested(args)
       THEN /\ train_calls' = train_calls + 1
            /\ stdout' = Append(stdout, "Use Adam")
            /\ opt' = NoOpt
            /\ scheduler' = 0
            /\ info_test_best' = NoInfo
            /\ epoch' = 0
            /\ pc' = "loop_head"
       ELSE /\ pc' = "finish"
            /\ UNCHANGED <<train_calls, stdout, opt, scheduler, info_test_best, epoch>>
    /\ UNCHANGED <<args, loaders, device_count, fs, exc, log, acpnet, training,
                   calls, batch, num_examples, info_test, saves>>

\* main(), last line.
MainFinish ==
    /\ pc = "finish"
    /\ MainFrame
    /\ UNCHANGED <<dirs, backups, my_iter>>
    /\ stdout' = Append(stdout, "FINISH")
    /\ pc' = "done"
    /\ UNCHANGED <<args, loaders, device_count, fs, exc, log, acpnet, training,
                   opt, calls, scheduler, epoch, batch, num_examples, info_test,
                   info_test_best, saves, train_calls>>

-----------------------------------------------------------------------------
(* train(): the epoch loop *)

TrainLoopHeadWithoutStep ==
    /\ pc = "loop_head"
    /\ MainFrame
    /\ UNCHANGED <<dirs, backups, my_iter>>
    /\ pc' = IF epoch < args.epochs THEN "train_begin" ELSE "finish"
    /\ UNCHANGED <<args, loaders, device_count, fs, exc, stdout, log, acpnet,
                   training, opt, calls, scheduler, epoch, batch, num_examples,
                   info_test, info_test_best, saves, train_calls>>

\* train(), "for epoch in range(args.epochs): scheduler.step()".  Here epoch
\* is the number of completed passes, the value the loop variable takes next.
TrainLoopHead ==
    /\ pc = "loop_head"
    /\ MainFrame
    /\ UNCHANGED <<dirs, backups, my_iter>>
    /\ IF epoch < args.epochs
       THEN /\ scheduler' = scheduler + 1
            /\ pc' = "train_begin"
       ELSE /\ scheduler' = scheduler
            /\ pc' = "finish"
    /\ UNCHANGED <<args, loaders, device_count, fs, exc, stdout, log, acpnet,
                   training, opt, calls, epoch, batch, num_examples, info_test,
                   info_test_best, saves, train_calls>>

\* _train_one_epoch up to its loop: self.train() and the zeroed totals.
TrainEpochBegin ==
    /\ pc = "train_begin"
    /\ MainFrame
    /\ UNCHANGED <<dirs, backups, my_iter>>
    /\ training' = TRUE
    /\ batch' = 0
    /\ num_examples' = 0
    /\ pc' = "train_batches"
    /\ UNCHANGED <<args, loaders, device_count, fs, exc, stdout, log, acpnet,
                   opt, calls, scheduler, epoch, info_test, info_test_best,
                   saves, train_calls>>

Forwards(n) == [i \in 1..n |-> "forward"]

\* ACPNet.forward calls self.head twice, for (src, tgt) and for (tgt, src).
HeadCalls(n) == 2 * n

CounterAfterCountingAlways(counter, mode, n) == counter + HeadCalls(n)

\* SVDHead.forward, "if self.training: self.my_iter += 1", over the n forward
\* passes of one batch; my_iter starts as torch.ones(1).  The head is the
\* SVD head (--head svd, the default).
CounterAfter(counter, mode, n) == IF mode THEN counter + HeadCalls(n) ELSE counter

TrainBatchCallsStepPerIter(n) ==
    IF n = 0 THEN <<"zero_grad">>
    ELSE <<"zero_grad">> \o [i \in 1..(2 * n) |-> IF i % 2 = 1 THEN "forward" ELSE "step"]
         \o <<"backward", "step">>

\* The optimizer, forward and autograd calls of one _train_one_batch, in
\* order.  With num_iters = 0 total_loss is still the int 0 after the loop
\* and total_loss.backward() raises before any backward pass or step.
TrainBatchCalls(n) ==
    IF n = 0 THEN <<"zero_grad">>
    ELSE <<"zero_grad">> \o Forwards(n) \o <<"backward", "step">>

Count(seq, x) == Cardinality({i \in DOMAIN seq : seq[i] = x})

Received(o, cs) ==
    [zero_grad |-> o.zero_grad + Count(cs, "zero_grad"),
     forward |-> o.forward + Count(cs, "forward"),
     backward |-> o.backward + Count(cs, "backward"),
     step |-> o.step + Count(cs, "step")]

\* One pass of the loop of _train_one_epoch: _train_one_batch on the next
\* batch, then the totals.  Every optimizer step changes the parameters.
TrainOneBatch ==
    /\ pc = "train_batches"
    /\ MainFrame
    /\ UNCHANGED <<dirs, backups>>
    /\ my_iter' = CounterAfter(my_iter, training, args.n_iters)
    /\ batch < loaders.train
    /\ calls' = TrainBatchCalls(args.n_iters)
    /\ opt' = Received(opt, calls')
    /\ acpnet' = [acpnet EXCEPT !.steps = @ + Count(calls', "step")]
    /\ IF args.n_iters = 0
       THEN /\ Raise("AttributeError")
            /\ UNCHANGED <<batch, num_examples>>
       ELSE /\ batch' = batch + 1
            /\ num_examples' = num_examples + TrainBatchSize
            /\ UNCHANGED <<pc, exc>>
    /\ UNCHANGED <<args, loaders, device_count, fs, stdout, log, training,
                   scheduler, epoch, info_test, info_test_best, saves, train_calls>>

\* _train_one_epoch after its loop: the averages (a division by num_examples),
\* the metrics and the 'train' record, written to the log.
DivisionNeverFails(n) == FALSE

\* "avg_loss = total_loss / num_examples" raises ZeroDivisionError when no
\* batch was consumed
DivisionByZero(n) == n = 0

TrainEpochEnd ==
    /\ pc = "train_batches"
    /\ MainFrame
    /\ UNCHANGED <<dirs, backups, my_iter>>
    /\ batch = loaders.train
    /\ IF DivisionByZero(num_examples)
       THEN /\ Raise("ZeroDivisionError")
            /\ UNCHANGED <<log, stdout>>
       ELSE /\ \E loss \in TrainLosses :
                  LoggerWrite([stage |-> "train", epoch |-> epoch, loss |-> loss])
            /\ pc' = "test_begin"
            /\ exc' = exc
    /\ UNCHANGED <<args, loaders, device_count, fs, acpnet, training, opt, calls,
                   scheduler, epoch, batch, num_examples, info_test,
                   info_test_best, saves, train_calls>>

\* _test_one_epoch up to its loop: self.eval() and the zeroed totals.
TestEpochBegin ==
    /\ pc = "test_begin"
    /\ MainFrame
    /\ UNCHANGED <<dirs, backups, my_iter>>
    /\ training' = FALSE
    /\ batch' = 0
    /\ num_examples' = 0
    /\ pc' = "test_batches"
    /\ UNCHANGED <<args, loaders, device_count, fs, exc, stdout, log, acpnet,
                   opt, calls, scheduler, epoch, info_test, info_test_best,
                   saves, train_calls>>

\* One pass of the loop of _test_one_epoch: _test_one_batch runs num_iters
\* forward passes and nothing else.  With num_iters = 0 total_loss.item()
\* is called on the int 0 and raises.
TestOneBatch ==
    /\ pc = "test_batches"
    /\ MainFrame
    /\ UNCHANGED <<dirs, backups>>
    /\ my_iter' = CounterAfter(my_iter, training, args.n_iters)
    /\ batch < loaders.test
    /\ opt' = Received(opt, Forwards(args.n_iters))
    /\ IF args.n_iters = 0
       THEN /\ Raise("AttributeError")
            /\ UNCHANGED <<batch, num_examples>>
       ELSE /\ batch' = batch + 1
            /\ num_examples' = num_examples + TestBatchSize
            /\ UNCHANGED <<pc, exc>>
    /\ UNCHANGED <<args, loaders, device_count, fs, stdout, log, acpnet, training,
                   calls, scheduler, epoch, info_test, info_test_best, saves,
                   train_calls>>

\* _test_one_epoch after its loop: the averages, the metrics and the 'test'
\* record, written to the log and returned.
TestEpochEnd ==
    /\ pc = "test_batches"
    /\ MainFrame
    /\ UNCHANGED <<dirs, backups, my_iter>>
    /\ batch = loaders.test
    /\ IF DivisionByZero(num_examples)
       THEN /\ Raise("ZeroDivisionError")
            /\ UNCHANGED <<log, stdout, info_test>>
       ELSE /\ \E loss \in Losses :
                  /\ info_test' = [stage |-> "test", epoch |-> epoch, loss |-> loss]
                  /\ LoggerWrite(info_test')
            /\ pc' = "best_check"
            /\ exc' = exc
    /\ UNCHANGED <<args, loaders, device_count, fs, acpnet, training, opt, calls,
                   scheduler, epoch, batch, num_examples, info_test_best, saves,
                   train_calls>>

IsNewBestOrEqual(best, test) == best = NoInfo \/ best.loss >= test.loss

\* train(), "if info_test_best is None or info_test_best['loss'] > info_test['loss']".
IsNewBest(best, test) == best = NoInfo \/ best.loss > test.loss

\* train(), the body of that if: info_test_best becomes the very dict
\* info_test, its stage is overwritten, and model.best.t7 is saved.
TrainBestCheck ==
    /\ pc = "best_check"
    /\ MainFrame
    /\ UNCHANGED <<dirs, backups, my_iter>>
    /\ IF IsNewBest(info_test_best, info_test)
       THEN /\ info_test_best' = [info_test EXCEPT !.stage = "best_test"]
            /\ info_test' = info_test_best'
            /\ fs' = [fs EXCEPT ![BestPath] = SavedDict(acpnet, device_count)]
            /\ saves' = Append(saves, SaveEvent(BestPath, epoch, acpnet, device_count))
       ELSE UNCHANGED <<info_test_best, info_test, fs, saves>>
    /\ pc' = "log_best"
    /\ UNCHANGED <<args, loaders, device_count, exc, stdout, log, acpnet, training,
                   opt, calls, scheduler, epoch, batch, num_examples, train_calls>>

TrainLogBestIfImproved ==
    /\ pc = "log_best"
    /\ MainFrame
    /\ UNCHANGED <<dirs, backups, my_iter>>
    /\ IF info_test.stage = "best_test"
       THEN LoggerWrite(info_test_best)
       ELSE UNCHANGED <<log, stdout>>
    /\ pc' = "save_epoch"
    /\ UNCHANGED <<args, loaders, device_count, fs, exc, acpnet, training, opt,
                   calls, scheduler, epoch, batch, num_examples, info_test,
                   info_test_best, saves, train_calls>>

\* train(), "net.logger.write(info_test_best)", after the if.
TrainLogBest ==
    /\ pc = "log_best"
    /\ MainFrame
    /\ UNCHANGED <<dirs, backups, my_iter>>
    /\ LoggerWrite(info_test_best)
    /\ pc' = "save_epoch"
    /\ UNCHANGED <<args, loaders, device_count, fs, exc, acpnet, training, opt,
                   calls, scheduler, epoch, batch, num_examples, info_test,
                   info_test_best, saves, train_calls>>

TrainSaveEpochIfImproved ==
    /\ pc = "save_epoch"
    /\ MainFrame
    /\ UNCHANGED <<dirs, backups, my_iter>>
    /\ IF info_test.stage = "best_test"
       THEN /\ fs' = [fs EXCEPT ![EpochPath(epoch)] = SavedDict(acpnet, device_count)]
            /\ saves' = Append(saves, SaveEvent(EpochPath(epoch), epoch, acpnet, device_count))
       ELSE UNCHANGED <<fs, saves>>
    /\ epoch' = epoch + 1
    /\ pc' = "loop_head"
    /\ UNCHANGED <<args, loaders, device_count, exc, stdout, log, acpnet, training,
                   opt, calls, scheduler, batch, num_examples, info_test,
                   info_test_best, train_calls>>

\* train(), "net.save('.../model.%d.t7' % epoch); gc.collect()": the end of
\* the loop body.
TrainSaveEpoch ==
    /\ pc = "save_epoch"
    /\ MainFrame
    /\ UNCHANGED <<dirs, backups, my_iter>>
    /\ fs' = [fs EXCEPT ![EpochPath(epoch)] = SavedDict(acpnet, device_count)]
    /\ saves' = Append(saves, SaveEvent(EpochPath(epoch), epoch, acpnet, device_count))
    /\ epoch' = epoch + 1
    /\ pc' = "loop_head"
    /\ UNCHANGED <<args, loaders, device_count, exc, stdout, log, acpnet, training,
                   opt, calls, scheduler, batch, num_examples, info_test,
                   info_test_best, train_calls>>

Next ==
    \/ MainInitDirs
    \/ PRNetInit
    \/ MainEvalCheck
    \/ MainDispatch
    \/ MainFinish
    \/ TrainLoopHead
    \/ TrainEpochBegin
    \/ TrainOneBatch
    \/ TrainEpochEnd
    \/ TestEpochBegin
    \/ TestOneBatch
    \/ TestEpochEnd
    \/ TrainBestCheck
    \/ TrainLogBest
    \/ TrainSaveEpoch

Spec == Init /\ [][Next]_vars

-----------------------------------------------------------------------------
(* Properties of the driver *)

Terminal == {"done", "returned", "raised"}

Printed(text) == \E i \in DOMAIN stdout : stdout[i] = text

LinesOf(stage) == {i \in DOMAIN log : log[i].stage = stage}
LinesOfEpoch(stage, e) == {i \in LinesOf(stage) : log[i].epoch = e}

\* The test loss epoch e reported, read from its 'test' line.
TestLoss(e) == log[CHOOSE i \in LinesOfEpoch("test", e) : TRUE].loss

BestSavesAt(e) == {i \in DOMAIN saves : saves[i].path = BestPath /\ saves[i].epoch = e}
EpochSaves == {i \in DOMAIN saves : saves[i].path # BestPath}

\* Epochs whose best-checkpoint decision has been taken.
DecidedEpochs ==
    {e \in 0..(args.epochs - 1) :
        e < epoch \/ (e = epoch /\ pc \in {"log_best", "save_epoch"})}

Improved(e) == e = 0 \/ \A d \in 0..(e - 1) : TestLoss(e) < TestLoss(d)

AtEpochBoundary == train_calls = 1 /\ pc \in {"loop_head", "finish", "done"}

\* C1: model.best.t7 is saved at epoch e if and only if e is the first epoch
\* or the test loss of e is strictly below every earlier test loss (a tie does
\* not save), and then exactly once; so for test losses ordered like
\* [0.5, 0.3, 0.4] (here 3, 1, 2) it is saved at epochs 0 and 1 only.
C1_BestSavedIffStrictImprovement ==
    \A e \in DecidedEpochs :
        /\ (BestSavesAt(e) # {}) <=> Improved(e)
        /\ Cardinality(BestSavesAt(e)) <= 1

C1_Witness ==
    /\ pc = "done"
    /\ epoch = 3
    /\ <<TestLoss(0), TestLoss(1), TestLoss(2)>> = <<3, 1, 2>>
    /\ BestSavesAt(0) # {} /\ BestSavesAt(1) # {} /\ BestSavesAt(2) = {}

\* C6: in evaluation mode, with no file at the resolved checkpoint path
\* (explicit model_path or the default best path), main prints the diagnostic
\* and returns early: no exception, no training, no FINISH.
C6_MissingCheckpointIsSoftFailure ==
    (args.eval /\ ~Exists(ResolvedPath(args))) =>
        /\ exc = "none"
        /\ train_calls = 0
        /\ opt = NoOpt
        /\ ~Printed("FINISH")
        /\ pc \in Terminal =>
              pc = "returned" /\ Printed("can't find pretrained model")

\* C7 as stated: main reaches its end only through the training loop, also
\* in evaluation mode with the checkpoint present.
C7_EvalInvokesTrain == pc = "done" => train_calls = 1

\* C7 amended: train() is invoked exactly when main is not in evaluation
\* mode; in evaluation mode with the resolved checkpoint present main skips
\* the training loop and goes straight to printing FINISH.
C7_TrainOnlyWhenNotEval ==
    /\ train_calls > 0 => ~args.eval
    /\ pc \in {"finish", "done"} => (train_calls = 1 <=> ~args.eval)
    /\ (args.eval /\ Exists(ResolvedPath(args)) /\ pc \in Terminal) =>
          pc = "done" /\ train_calls = 0 /\ opt = NoOpt /\ saves = <<>>

C7_Witness ==
    /\ args.eval /\ Exists(ResolvedPath(args))
    /\ pc = "done" /\ train_calls = 0 /\ Printed("FINISH")

\* Train and test batches completed so far in the run.
TrainBatchesDone ==
    IF pc \in {"train_batches"} THEN epoch * loaders.train + batch
    ELSE IF pc \in {"test_begin", "test_batches", "best_check", "log_best", "save_epoch"}
    THEN (epoch + 1) * loaders.train
    ELSE epoch * loaders.train
TestBatchesDone ==
    IF pc \in {"test_batches"} THEN epoch * loaders.test + batch
    ELSE IF pc \in {"best_check", "log_best", "save_epoch"}
    THEN (epoch + 1) * loaders.test
    ELSE epoch * loaders.test

C9_BestTestLineOnlyOnImprovement ==
    AtEpochBoundary =>
        /\ \A e \in 0..(epoch - 1) :
              /\ Cardinality(LinesOfEpoch("train", e)) = 1
              /\ Cardinality(LinesOfEpoch("test", e)) = 1
        /\ Cardinality(LinesOf("best_test")) =
              Cardinality({e \in 0..(epoch - 1) : Improved(e)})

\* C9 amended: every epoch appends, in this order, exactly one 'train' line
\* and one 'test' line for that epoch and then exactly one 'best_test' line
\* (the best record so far), whether or not its test loss improved; the log
\* holds nothing else but the two configuration lines of construction.
C9_ThreeLinesPerEpoch ==
    AtEpochBoundary =>
        /\ Len(log) = 2 + 3 * epoch
        /\ \A e \in 0..(epoch - 1) :
              /\ LinesOfEpoch("train", e) = {2 + 3 * e + 1}
              /\ LinesOfEpoch("test", e) = {2 + 3 * e + 2}
              /\ log[2 + 3 * e + 3].stage = "best_test"
        /\ Cardinality(LinesOf("best_test")) = epoch

C9_Witness ==
    /\ pc = "done" /\ train_calls = 1 /\ epoch = 2
    /\ ~Improved(1)
    /\ Cardinality(LinesOf("best_test")) = 2
    /\ log[8] = log[5]

\* C10: a run of E configured epochs executes epochs 0..E-1 and saves
\* model.<e>.t7 once at the end of every epoch e, improved or not: the
\* per-epoch saves made so far are those of the completed epochs, in order,
\* each file exists, and a run that completes has completed E epochs.
C10_EveryEpochCheckpointed ==
    /\ Cardinality(EpochSaves) = epoch
    /\ \A e \in 0..(MaxEpochs - 1) :
          /\ Exists(EpochPath(e)) <=> e < epoch
          /\ e < epoch =>
                \E i \in EpochSaves :
                    /\ saves[i].path = EpochPath(e)
                    /\ saves[i].epoch = e
                    /\ Cardinality({j \in EpochSaves : j < i}) = e
    /\ (pc \in {"finish", "done"} /\ train_calls = 1) =>
          epoch = args.epochs /\ scheduler = args.epochs

C10_Witness ==
    /\ pc = "done" /\ args.epochs = 3 /\ epoch = 3
    /\ ~Improved(1) /\ ~Improved(2)
    /\ \A e \in 0..2 : Exists(EpochPath(e))


\* C16: after _init_ has run from a directory holding main.py, model.py and
\* data.py, checkpoints/<exp_name>/ holds main.py.backup, model.py.backup and
\* data.py.backup, and no failed copy aborts the initialisation.
C16_ThreeBackupsPresent ==
    pc # "_init_" =>
        /\ dirs = ExperimentDirs
        /\ backups = {"main.py.backup", "model.py.backup", "data.py.backup"}
        /\ pc = "construct" => exc = "none"

\* C20: in every epoch the events come in this order: the schedule advance,
\* the 'train' log line, the 'test' log line, the save of model.best.t7 if
\* the test loss improved, the 'best_test' log line, the save of
\* model.<e>.t7; and no event of epoch e + 1 comes before the save of
\* model.<e>.t7.  In counts: each kind of event has happened at most once
\* more than the kind that follows it, and the schedule has advanced at most
\* once more than per-epoch checkpoints were saved; the k-th event of each
\* kind is that of epoch k - 1.
C20_EpochEventOrder ==
    LET advances == scheduler
        trains == Cardinality(LinesOf("train"))
        tests == Cardinality(LinesOf("test"))
        bests == Cardinality(LinesOf("best_test"))
        epoch_saves == Cardinality(EpochSaves)
    IN /\ advances >= trains /\ trains >= tests /\ tests >= bests
       /\ bests >= epoch_saves /\ epoch_saves >= advances - 1
       /\ \A e \in 0..(MaxEpochs - 1) :
             /\ e < trains => Cardinality(LinesOfEpoch("train", e)) = 1
             /\ e < tests => Cardinality(LinesOfEpoch("test", e)) = 1
             \* the best checkpoint of e: after the 'test' line of e ...
             /\ BestSavesAt(e) # {} => e < tests
             \* ... before the 'best_test' line of e ...
             /\ (e < bests /\ Improved(e)) => BestSavesAt(e) # {}
             \* ... and so before model.<e>.t7, after model.<e-1>.t7
             /\ \A i \in BestSavesAt(e) :
                    Cardinality({j \in EpochSaves : j < i}) = e
       /\ \A i \in EpochSaves :
             saves[i].epoch = Cardinality({j \in EpochSaves : j < i})

C20_Witness ==
    /\ pc = "save_epoch" /\ epoch = 1 /\ scheduler = 2
    /\ [i \in DOMAIN log |-> log[i].stage] =
          <<"config", "config", "train", "test", "best_test", "train", "test", "best_test">>
    /\ [i \in DOMAIN saves |-> saves[i].path] = <<BestPath, EpochPath(0), BestPath>>
    /\ [i \in DOMAIN saves |-> saves[i].epoch] = <<0, 0, 1>>

InTestEpoch == pc \in {"test_begin", "test_batches"}

-----------------------------------------------------------------------------
(* A constructed PRNet under optimizer steps, save(path) and load(path) *)

MainIdle ==
    /\ args = [eval |-> FALSE, model_path |-> "", epochs |-> 0, n_iters |-> 0]
    /\ loaders = [train |-> 0, test |-> 0]
    /\ stdout = <<>> /\ log = <<>> /\ training = TRUE /\ opt = NoOpt
    /\ calls = <<>> /\ scheduler = 0 /\ epoch = 0 /\ batch = 0
    /\ num_examples = 0 /\ info_test = NoInfo /\ info_test_best = NoInfo
    /\ saves = <<>> /\ train_calls = 0 /\ dirs = {} /\ backups = {}
    /\ my_iter = 1

PersistFrame ==
    UNCHANGED <<args, loaders, device_count, stdout, log, training, opt, calls,
                scheduler, epoch, batch, num_examples, info_test, info_test_best,
                saves, train_calls, dirs, backups, my_iter, predVars, ccVars,
                svdVars, extVars>>

\* The state PRNet.__init__ leaves with model_path = '': fresh parameters,
\* wrapped in DataParallel when more than one device is visible; no
\* checkpoint written yet.
PersistInit ==
    /\ MainIdle /\ PredIdle /\ CcIdle /\ SvdIdle /\ ExtIdle
    /\ device_count \in DeviceCounts
    /\ acpnet = [wrapped |-> device_count > 1, base |-> FreshParams.base,
                 steps |-> FreshParams.steps]
    /\ fs = [p \in Paths |-> NoFile]
    /\ pc = "ready"
    /\ exc = "none"
    /\ last_op = NoOp
    /\ held_state = NoState

\* opt.step(): the parameters change.
PersistOptStep ==
    /\ pc = "ready"
    /\ acpnet.steps < MaxSteps
    /\ acpnet' = [acpnet EXCEPT !.steps = @ + 1]
    /\ last_op' = [op |-> "step", path |-> <<"", 0>>]
    /\ UNCHANGED <<fs, pc, exc, held_state>>
    /\ PersistFrame

\* PRNet.save(path)
PersistSave ==
    /\ pc = "ready"
    /\ \E path \in {BestPath, UserPath} :
          /\ fs' = [fs EXCEPT ![path] = SavedDict(acpnet, device_count)]
          /\ last_op' = [op |-> "save", path |-> path]
    /\ UNCHANGED <<acpnet, pc, exc, held_state>>
    /\ PersistFrame

\* PRNet.load(path): self.acpnet.load_state_dict(torch.load(path))
PersistLoad ==
    /\ pc = "ready"
    /\ \E path \in {BestPath, UserPath} :
          /\ last_op' = [op |-> "load", path |-> path]
          /\ IF LoadError(acpnet, fs[path]) # "none"
             THEN /\ Raise(LoadError(acpnet, fs[path]))
                  /\ acpnet' = acpnet
             ELSE /\ acpnet' = Loaded(acpnet, fs[path])
                  /\ UNCHANGED <<pc, exc>>
    /\ UNCHANGED <<fs, held_state>>
    /\ PersistFrame

\* PRNet.get_state(): "return self.acpnet.state_dict()".  The dict is
\* recorded with the values it shows at the call.
PersistGetState ==
    /\ pc = "ready"
    /\ held_state' = [held |-> TRUE, at |-> StateDict(acpnet)]
    /\ last_op' = [op |-> "get_state", path |-> <<"", 0>>]
    /\ UNCHANGED <<acpnet, fs, pc, exc>>
    /\ PersistFrame

\* What a dict returned by state_dict() shows when it is read: its tensors
\* are the parameters detached, sharing their storage, and optimizer steps
\* and load_state_dict write the parameters in place; nothing copies them.
HeldContents(net) == StateDict(net)

\* PRNet.set_state(state): "self.acpnet.load_state_dict(state)", called with
\* the dict get_state returned.
PersistSetState ==
    /\ pc = "ready"
    /\ held_state.held
    /\ last_op' = [op |-> "set_state", path |-> <<"", 0>>]
    /\ IF LoadError(acpnet, HeldContents(acpnet)) # "none"
       THEN /\ Raise(LoadError(acpnet, HeldContents(acpnet)))
            /\ acpnet' = acpnet
       ELSE /\ acpnet' = Loaded(acpnet, HeldContents(acpnet))
            /\ UNCHANGED <<pc, exc>>
    /\ UNCHANGED <<fs, held_state>>
    /\ PersistFrame

PersistNext ==
    \/ PersistOptStep
    \/ PersistSave
    \/ PersistLoad
    \/ PersistGetState
    \/ PersistSetState

SpecPersist == PersistInit /\ [][PersistNext]_vars

\* C5: whatever the number of visible devices, load(p) called on the
\* constructed model after save(p) succeeds and leaves the orchestrator's
\* parameters equal to the saved ones.
C5_LoadAfterSaveRestores ==
    (last_op.op = "load" /\ Exists(last_op.path)) =>
        /\ exc = "none"
        /\ acpnet.base = fs[last_op.path].base
        /\ acpnet.steps = fs[last_op.path].steps

\* C13: set_state(s) with s = get_state() taken earlier restores the
\* parameters to their values at the time of get_state, whatever optimizer
\* steps were made in between.
C13_SetStateRestoresSnapshot ==
    last_op.op = "set_state" =>
        /\ exc = "none"
        /\ acpnet.base = held_state.at.base
        /\ acpnet.steps = held_state.at.steps

-----------------------------------------------------------------------------
(* PRNet.predict *)

Identity3 == <<<<1, 0, 0>>, <<0, 1, 0>>, <<0, 0, 1>>>>
\* Quarter turns about z and about x, and the inverse of the first.
RotZ == <<<<0, -1, 0>>, <<1, 0, 0>>, <<0, 0, 1>>>>
RotZT == <<<<0, 1, 0>>, <<-1, 0, 0>>, <<0, 0, 1>>>>
RotX == <<<<1, 0, 0>>, <<0, 0, -1>>, <<0, 1, 0>>>>
Zero3 == <<0, 0, 0>>

\* torch.matmul on 3x3 matrices, on a matrix and a column vector
MatMul(A, B) ==
    [i \in 1..3 |-> [j \in 1..3 |-> A[i][1] * B[1][j] + A[i][2] * B[2][j] + A[i][3] * B[3][j]]]
MatVec(A, v) ==
    [i \in 1..3 |-> A[i][1] * v[1] + A[i][2] * v[2] + A[i][3] * v[3]]
VecAdd(u, v) == [i \in 1..3 |-> u[i] + v[i]]
Transpose(A) == [i \in 1..3 |-> [j \in 1..3 |-> A[j][i]]]
Neg(v) == [i \in 1..3 |-> 0 - v[i]]

\* util.transform_point_cloud: rotate, then translate, every point
TransformPointCloud(cloud, R, t) ==
    [n \in DOMAIN cloud |-> VecAdd(MatVec(R, cloud[n]), t)]

ComposeRotationRight(Ri, Racc) == MatMul(Racc, Ri)

\* predict, "rotation_ab_pred = torch.matmul(rotation_ab_pred_i, rotation_ab_pred)"
ComposeRotation(Ri, Racc) == MatMul(Ri, Racc)

ComposeTranslationUnrotated(Ri, tacc, ti) == VecAdd(tacc, ti)

\* predict, "translation_ab_pred = torch.matmul(rotation_ab_pred_i,
\* translation_ab_pred) + translation_ab_pred_i"
ComposeTranslation(Ri, tacc, ti) == VecAdd(MatVec(Ri, tacc), ti)

\* Incremental estimates self.forward may return, and source clouds.  Every
\* operation of predict acts on each example of the batch by itself: the
\* model carries one example.
PredRotations == {Identity3, RotZ, RotX}
PredTranslations == {Zero3, <<1, 0, 0>>, <<0, 1, 0>>}
PredClouds == {<<<<1, 0, 0>>>>, <<<<1, 2, 3>>, <<0, 0, 1>>>>}

PredictFrame == UNCHANGED <<mainVars, perVars, ccVars, svdVars, extVars>>

\* predict entered: the identity / zero accumulators are set.
PredictInit ==
    /\ MainIdle /\ PerIdle /\ CcIdle /\ SvdIdle /\ ExtIdle
    /\ device_count = 1 /\ pc = "idle" /\ exc = "none"
    /\ acpnet = [wrapped |-> FALSE, base |-> FreshParams.base, steps |-> FreshParams.steps]
    /\ fs = [p \in Paths |-> NoFile]
    /\ p_pc = "loop"
    /\ p_n_iters \in 0..MaxIters
    /\ p_i = 0
    /\ rotation_ab_pred = Identity3
    /\ translation_ab_pred = Zero3
    /\ p_src \in PredClouds
    /\ p_src0 = p_src
    /\ p_steps = <<>>

\* One pass of the loop of predict.
PredictIter ==
    /\ p_pc = "loop"
    /\ p_i < p_n_iters
    /\ \E Ri \in PredRotations, ti \in PredTranslations :
          /\ rotation_ab_pred' = ComposeRotation(Ri, rotation_ab_pred)
          /\ translation_ab_pred' = ComposeTranslation(Ri, translation_ab_pred, ti)
          /\ p_src' = TransformPointCloud(p_src, Ri, ti)
          /\ p_steps' = Append(p_steps, <<Ri, ti>>)
    /\ p_i' = p_i + 1
    /\ UNCHANGED <<p_pc, p_n_iters, p_src0>>
    /\ PredictFrame

\* predict, "return rotation_ab_pred, translation_ab_pred"
PredictReturn ==
    /\ p_pc = "loop"
    /\ p_i = p_n_iters
    /\ p_pc' = "returned"
    /\ UNCHANGED <<p_n_iters, p_i, rotation_ab_pred, translation_ab_pred, p_src, p_src0,
                   p_steps>>
    /\ PredictFrame

PredictNext == PredictIter \/ PredictReturn

SpecPredict == PredictInit /\ [][PredictNext]_vars

\* The matrix product and the affine update written out entry by entry.
ProductEntry(A, B, i, j) == A[i][1] * B[1][j] + A[i][2] * B[2][j] + A[i][3] * B[3][j]
AffineEntry(A, u, v, i) == A[i][1] * u[1] + A[i][2] * u[2] + A[i][3] * u[3] + v[i]

RECURSIVE ComposedRotation(_), ComposedTranslation(_)
ComposedRotation(steps) ==
    IF steps = <<>> THEN Identity3
    ELSE LET n == Len(steps)
             rest == ComposedRotation(SubSeq(steps, 1, n - 1))
         IN [i \in 1..3 |-> [j \in 1..3 |-> ProductEntry(steps[n][1], rest, i, j)]]
ComposedTranslation(steps) ==
    IF steps = <<>> THEN Zero3
    ELSE LET n == Len(steps)
             rest == ComposedTranslation(SubSeq(steps, 1, n - 1))
         IN [i \in 1..3 |-> AffineEntry(steps[n][1], rest, steps[n][2], i)]

\* C3: predict starts from (I, 0) and every iteration left-multiplies the
\* incremental rotation and maps the translation affinely: after estimates
\* (R1, t1), (R2, t2) the transform is (R2.R1, R2.t1 + t2), after none (I, 0).
C3_PredictComposes ==
    /\ p_i = 0 => rotation_ab_pred = Identity3 /\ translation_ab_pred = Zero3
    /\ p_i = 1 => rotation_ab_pred = p_steps[1][1] /\ translation_ab_pred = p_steps[1][2]
    /\ p_i = 2 =>
          \A i \in 1..3 :
              /\ \A j \in 1..3 :
                    rotation_ab_pred[i][j] = ProductEntry(p_steps[2][1], p_steps[1][1], i, j)
              /\ translation_ab_pred[i] =
                    AffineEntry(p_steps[2][1], p_steps[1][2], p_steps[2][2], i)
    /\ p_pc \in {"loop", "returned"} =>
          /\ Len(p_steps) = p_i
          /\ rotation_ab_pred = ComposedRotation(p_steps)
          /\ translation_ab_pred = ComposedTranslation(p_steps)
    /\ p_pc = "returned" => p_i = p_n_iters

C3_Witness ==
    /\ p_pc = "returned" /\ p_n_iters = 2
    /\ p_steps = <<<<RotZ, <<0, 1, 0>>>>, <<RotX, <<1, 0, 0>>>>>>
    /\ rotation_ab_pred = <<<<0, -1, 0>>, <<0, 0, -1>>, <<1, 0, 0>>>>
    /\ translation_ab_pred = <<1, 0, 1>>

-----------------------------------------------------------------------------
(* cycle_consistency *)

SqDiffMat(A, B) ==
    LET d(i, j) == (A[i][j] - B[i][j]) * (A[i][j] - B[i][j])
    IN d(1, 1) + d(1, 2) + d(1, 3) + d(2, 1) + d(2, 2) + d(2, 3) + d(3, 1) + d(3, 2) + d(3, 3)
SqDiffVec(u, v) ==
    LET d(i) == (u[i] - v[i]) * (u[i] - v[i]) IN d(1) + d(2) + d(3)

RECURSIVE SumSeq(_)
SumSeq(q) == IF q = <<>> THEN 0 ELSE q[1] + SumSeq(Tail(q))

\* F.mse_loss(matmul(rotation_ab, rotation_ba), identity)
\*   + F.mse_loss(translation_ab, -translation_ba)
\* over a batch of B examples: the means are over 9B and 3B elements, so the
\* value is num / den with den = 9B.
CycleConsistency(b) ==
    [num |-> SumSeq([k \in DOMAIN b |->
                        SqDiffMat(MatMul(b[k].rotation_ab, b[k].rotation_ba), Identity3)])
             + 3 * SumSeq([k \in DOMAIN b |->
                        SqDiffVec(b[k].translation_ab, Neg(b[k].translation_ba))]),
     den |-> 9 * Len(b)]

CcRotations == {Identity3, RotZ, RotZT}
CcTranslations == {Zero3, <<1, 0, 0>>, <<-1, 0, 0>>, <<0, -1, 0>>}
CcExamples ==
    [rotation_ab : CcRotations, translation_ab : CcTranslations,
     rotation_ba : CcRotations, translation_ba : CcTranslations]

CycleInit ==
    /\ MainIdle /\ PerIdle /\ PredIdle /\ SvdIdle /\ ExtIdle
    /\ device_count = 1 /\ pc = "idle" /\ exc = "none"
    /\ acpnet = [wrapped |-> FALSE, base |-> FreshParams.base, steps |-> FreshParams.steps]
    /\ fs = [p \in Paths |-> NoFile]
    /\ \E B \in 1..MaxCcBatch : cc_in \in [1..B -> CcExamples]
    /\ cc_out = <<>>

\* The call cycle_consistency(rotation_ab, translation_ab, rotation_ba, translation_ba)
CycleCall ==
    /\ cc_out = <<>>
    /\ cc_out' = CycleConsistency(cc_in)
    /\ UNCHANGED <<cc_in, mainVars, perVars, predVars, svdVars, extVars>>

CycleNext == CycleCall

SpecCycle == CycleInit /\ [][CycleNext]_vars

\* The two transforms of an example are exact inverses of each other.
ExactInverses(e) ==
    /\ e.rotation_ab = Transpose(e.rotation_ba)
    /\ e.translation_ab = Neg(MatVec(e.rotation_ab, e.translation_ba))

\* C2: cycle_consistency is exactly zero when R_ab is the transpose of R_ba
\* and t_ab = -R_ab.t_ba, and strictly positive for every other pair.
C2_ZeroIffExactInverses ==
    cc_out # <<>> =>
        /\ cc_out.num >= 0
        /\ cc_out.num = 0 <=> \A k \in DOMAIN cc_in : ExactInverses(cc_in[k])

-----------------------------------------------------------------------------
(* SVDHead.forward: the point weights and the degenerate-weight guard *)

\* Weights are held as multiples of 1/N, N the number of points, so the
\* fallback 1 / weights.shape[1] is one unit; relu(tanh(.)) lies in [0, 1).
WeightUnits(N) == {w \in 0..1 : w < N}

UnguardedWeights(w) == w

\* "if torch.any(torch.sum(weights, dim=1) == 0.0):
\*      weights = weights + 1 / weights.shape[1]"
GuardedWeights(w) ==
    IF \E b \in DOMAIN w : SumSeq(w[b]) = 0
    THEN [b \in DOMAIN w |-> [n \in DOMAIN w[b] |-> w[b][n] + 1]]
    ELSE w

\* _EPS = 1e-5 is 1 / EpsInverse
EpsInverse == 100000

\* Source clouds of N points, one of them with its centroid off the origin
\* in every coordinate.
SvdClouds(N) == {[n \in 1..N |-> <<n, 1, 0 - n>>], [n \in 1..N |-> <<n - 2, 0, 1>>]}

\* The sum of the points, each scaled by its weight: matmul(weights^T, src)
WeightedSum(w, cloud) ==
    [c \in 1..3 |-> SumSeq([n \in DOMAIN cloud |-> w[n] * cloud[n][c]])]

\* "srcm = matmul(weights^T, src) / (sum(weights, dim=1) + _EPS)" for one
\* example, as the fraction num / den per coordinate.  With the weights in
\* units of 1/N this is
\*   (WeightedSum / N) / (Sum / N + 1 / EpsInverse)
\*     = EpsInverse * WeightedSum / (EpsInverse * Sum + N).
\* tgtm divides by the same denominator.
WeightedCentroid(w, cloud) ==
    [num |-> [c \in 1..3 |-> EpsInverse * WeightedSum(w, cloud)[c]],
     den |-> EpsInverse * SumSeq(w) + Len(w)]

SvdInit ==
    /\ MainIdle /\ PerIdle /\ PredIdle /\ CcIdle /\ ExtIdle
    /\ device_count = 1 /\ pc = "idle" /\ exc = "none"
    /\ acpnet = [wrapped |-> FALSE, base |-> FreshParams.base, steps |-> FreshParams.steps]
    /\ fs = [p \in Paths |-> NoFile]
    /\ \E B \in 1..MaxSvdBatch, N \in 1..MaxPoints :
          /\ svd_in \in [1..B -> [1..N -> WeightUnits(N)]]
          /\ svd_src \in [1..B -> SvdClouds(N)]
    /\ svd_weights = <<>>
    /\ svd_srcm = <<>>
    /\ svd_pc = "input"

\* SVDHead.forward from the weight logits to the guarded weights and the
\* weighted centroid of the source.
SvdForwardWeights ==
    /\ svd_pc = "input"
    /\ svd_weights' = GuardedWeights(svd_in)
    /\ svd_srcm' = [b \in DOMAIN svd_in |-> WeightedCentroid(svd_weights'[b], svd_src[b])]
    /\ svd_pc' = "weighted"
    /\ UNCHANGED <<svd_in, svd_src, mainVars, perVars, predVars, ccVars, extVars>>

SvdNext == SvdForwardWeights

SpecSVD == SvdInit /\ [][SvdNext]_vars

\* C4: the fallback 1/N is added to every weight of exactly the examples
\* whose weights sum to zero; the other examples of the batch keep their
\* learned weights.
C4_FallbackOnlyForDegenerateExamples ==
    svd_pc = "weighted" =>
        \A b \in DOMAIN svd_in :
            svd_weights[b] =
                IF SumSeq(svd_in[b]) = 0
                THEN [n \in DOMAIN svd_in[b] |-> svd_in[b][n] + 1]
                ELSE svd_in[b]

\* The sum of the points of a cloud, coordinate by coordinate.
PointSum(cloud) == [c \in 1..3 |-> SumSeq([n \in DOMAIN cloud |-> cloud[n][c]])]

WeightsUsable(b) ==
    /\ \A n \in DOMAIN svd_weights[b] : svd_weights[b][n] >= 0
    /\ SumSeq(svd_weights[b]) > 0
    /\ svd_srcm[b].den > 0

Uniform(w) == \A n, m \in DOMAIN w : w[n] = w[m]

\* C17 as stated: after the guard every example has non-negative weights of
\* strictly positive sum, so the centroid denominator is never zero; an
\* example whose learned weights are all zero is given uniform weights and
\* its centroid is the unweighted centroid of its points, sum / N.
C17_DegenerateCentroidIsMean ==
    svd_pc = "weighted" =>
        \A b \in DOMAIN svd_in :
            /\ WeightsUsable(b)
            /\ SumSeq(svd_in[b]) = 0 =>
                  /\ Uniform(svd_weights[b])
                  /\ \A c \in 1..3 :
                        svd_srcm[b].num[c] * Len(svd_src[b]) =
                            PointSum(svd_src[b])[c] * svd_srcm[b].den

\* C17 amended: the same, except that the centroid of such an example is the
\* unweighted centroid divided by 1 + 1e-5, that is sum / (N * (1 + 1e-5)):
\* the 1e-5 is added to the denominator whatever the weights sum to.
C17_DegenerateCentroidIsScaledMean ==
    svd_pc = "weighted" =>
        \A b \in DOMAIN svd_in :
            /\ WeightsUsable(b)
            /\ SumSeq(svd_in[b]) = 0 =>
                  /\ Uniform(svd_weights[b])
                  /\ svd_srcm[b].num = [c \in 1..3 |-> EpsInverse * PointSum(svd_src[b])[c]]
                  /\ svd_srcm[b].den = Len(svd_src[b]) * (EpsInverse + 1)

C17_Witness ==
    /\ svd_pc = "weighted"
    /\ svd_in = <<<<0, 0, 0>>, <<1, 0, 1>>>>
    /\ svd_weights = <<<<1, 1, 1>>, <<2, 1, 2>>>>
    /\ svd_src[1] = <<<<1, 1, -1>>, <<2, 1, -2>>, <<3, 1, -3>>>>
    /\ svd_srcm[1] = [num |-> <<600000, 300000, -600000>>, den |-> 300003]

-----------------------------------------------------------------------------
(* The component-level specifications below start from an idle driver *)

ProgramIdle ==
    /\ MainIdle /\ PerIdle /\ PredIdle /\ CcIdle /\ SvdIdle
    /\ device_count = 1 /\ pc = "idle" /\ exc = "none"
    /\ acpnet = [wrapped |-> FALSE, base |-> FreshParams.base, steps |-> FreshParams.steps]
    /\ fs = [p \in Paths |-> NoFile]

ProgramFrame == UNCHANGED <<mainVars, perVars, predVars, ccVars, svdVars>>

-----------------------------------------------------------------------------
(* SVDHead.forward: from the factors of torch.svd(H[i]) to the rotation R[i] *)

MaxKabBatch == 2

\* self.reflect, and two more improper orthogonal matrices
Reflect == <<<<1, 0, 0>>, <<0, 1, 0>>, <<0, 0, -1>>>>
FlipX == <<<<-1, 0, 0>>, <<0, 1, 0>>, <<0, 0, 1>>>>
SwapXY == <<<<0, 1, 0>>, <<1, 0, 0>>, <<0, 0, 1>>>>

\* Orthogonal factors torch.svd may return: proper and improper ones, so that
\* v.u^T has determinant +1 for some pairs and -1 for others.
SvdFactors == {Identity3, RotZ, RotX, Reflect, FlipX, SwapXY}

\* torch.det on a 3x3 matrix
Det3(M) ==
    M[1][1] * (M[2][2] * M[3][3] - M[2][3] * M[3][2])
    - M[1][2] * (M[2][1] * M[3][3] - M[2][3] * M[3][1])
    + M[1][3] * (M[2][1] * M[3][2] - M[2][2] * M[3][1])

\* "diag = [[1.0, 0, 0], [0, 1.0, 0], [0, 0, r_det]]"
DetDiag(r_det) == <<<<1, 0, 0>>, <<0, 1, 0>>, <<0, 0, r_det>>>>

KabschRotationUncorrected(u, v) == MatMul(v, Transpose(u))

\* The body of the loop over the examples, the same on both paths:
\*   r = matmul(v, u^T); r_det = det(r); r = matmul(matmul(v, diag), u^T)
KabschRotation(u, v) ==
    LET r == MatMul(v, Transpose(u))
        r_det == Det3(r)
    IN MatMul(MatMul(v, DetDiag(r_det)), Transpose(u))

\* "if self.on_gpu:" R[i] = r for every example; "else:" R.append(r) for
\* every example and torch.stack.  The two paths differ in the matrix handed
\* to torch.svd (H[i], or H[i] + 1e-7 I on the CPU), not in what is built
\* from its factors.
RotationsOnGpu(factors) == [i \in DOMAIN factors |-> KabschRotation(factors[i].u, factors[i].v)]
RotationsOnCpu(factors) == [i \in DOMAIN factors |-> KabschRotation(factors[i].u, factors[i].v)]

KabInit ==
    /\ ProgramIdle /\ TempIdle /\ KnnIdle /\ SchIdle /\ Ext2Idle
    /\ \E B \in 1..MaxKabBatch :
          kab_in \in [on_gpu : BOOLEAN, factors : [1..B -> [u : SvdFactors, v : SvdFactors]]]
    /\ kab_R = <<>>

\* SVDHead.forward, the SVD loop of the path args.svd_on_gpu selects.
SvdForwardRotation ==
    /\ kab_R = <<>>
    /\ kab_R' = IF kab_in.on_gpu THEN RotationsOnGpu(kab_in.factors)
                ELSE RotationsOnCpu(kab_in.factors)
    /\ UNCHANGED <<kab_in, tempVars, knnVars, schVars, ext2Vars>>
    /\ ProgramFrame

KabNext == SvdForwardRotation

SpecKabsch == KabInit /\ [][KabNext]_vars

IsProperRotation(R) == MatMul(R, Transpose(R)) = Identity3 /\ Det3(R) = 1

\* C11: on both paths and for every example of the batch, the rotation
\* v.diag(1, 1, det(v.u^T)).u^T built from orthogonal SVD factors is a proper
\* rotation: orthonormal with determinant +1, also when det(v.u^T) = -1.
C11_RotationIsProper ==
    kab_R # <<>> =>
        /\ DOMAIN kab_R = DOMAIN kab_in.factors
        /\ \A i \in DOMAIN kab_R : IsProperRotation(kab_R[i])

C11_Witness ==
    /\ kab_R # <<>> /\ ~kab_in.on_gpu /\ Len(kab_R) = 2
    /\ Det3(MatMul(kab_in.factors[1].v, Transpose(kab_in.factors[1].u))) = -1
    /\ Det3(MatMul(kab_in.factors[2].v, Transpose(kab_in.factors[2].u))) = 1
    /\ kab_R[1] # MatMul(kab_in.factors[1].v, Transpose(kab_in.factors[1].u))
    /\ Det3(kab_R[1]) = 1

-----------------------------------------------------------------------------
(* TemperatureNet.forward: the clamp of the network output *)

MaxTempNum == 4
MaxTempDen == 2

\* Fractions num / den with den > 0, compared by cross-multiplication.
Fractions(lo) == [num : lo..MaxTempNum, den : 1..MaxTempDen]
FracLeq(a, b) == a.num * b.den <= b.num * a.den
FracEq(a, b) == a.num * b.den = b.num * a.den
FracMax(a, b) == IF FracLeq(a, b) THEN b ELSE a
FracMin(a, b) == IF FracLeq(a, b) THEN a ELSE b
\* 1.0 / self.temp_factor
Reciprocal(a) == [num |-> a.den, den |-> a.num]

ClampMaxOnly(x, min, max) == FracMin(x, max)

\* torch.clamp(x, min, max): min(max(x, min), max); when min exceeds max
\* every element becomes max.
Clamp(x, min, max) == FracMin(FracMax(x, min), max)

\* "return torch.clamp(self.nn(residual), 1.0/self.temp_factor,
\*                     1.0*self.temp_factor), residual"
Temperature(raw, temp_factor) == Clamp(raw, Reciprocal(temp_factor), temp_factor)

\* --temp_factor is any positive float; self.nn ends in a ReLU, so its output
\* is any non-negative value.
TempInit ==
    /\ ProgramIdle /\ KabIdle /\ KnnIdle /\ SchIdle /\ Ext2Idle
    /\ temp_in \in [temp_factor : Fractions(1), raw : Fractions(0)]
    /\ temp_out = <<>>

TemperatureForward ==
    /\ temp_out = <<>>
    /\ temp_out' = Temperature(temp_in.raw, temp_in.temp_factor)
    /\ UNCHANGED <<temp_in, kabVars, knnVars, schVars, ext2Vars>>
    /\ ProgramFrame

TempNext == TemperatureForward

SpecTemp == TempInit /\ [][TempNext]_vars

One == [num |-> 1, den |-> 1]

\* C12 as stated: for every temp_factor > 0 the temperature returned lies in
\* the closed interval [1/temp_factor, temp_factor].
C12_TemperatureInInterval ==
    temp_out # <<>> =>
        /\ FracLeq(Reciprocal(temp_in.temp_factor), temp_out)
        /\ FracLeq(temp_out, temp_in.temp_factor)

\* C12 amended: for every temp_factor >= 1 the temperature returned lies in
\* [1/temp_factor, temp_factor]; for 0 < temp_factor < 1 the two bounds cross
\* and the temperature returned is temp_factor itself, below 1/temp_factor.
C12_TemperatureClamped ==
    temp_out # <<>> =>
        IF FracLeq(One, temp_in.temp_factor)
        THEN /\ FracLeq(Reciprocal(temp_in.temp_factor), temp_out)
             /\ FracLeq(temp_out, temp_in.temp_factor)
             /\ (FracLeq(Reciprocal(temp_in.temp_factor), temp_in.raw)
                    /\ FracLeq(temp_in.raw, temp_in.temp_factor)) => FracEq(temp_out, temp_in.raw)
        ELSE /\ FracEq(temp_out, temp_in.temp_factor)
             /\ ~FracLeq(Reciprocal(temp_in.temp_factor), temp_out)

C12_Witness ==
    /\ temp_out # <<>>
    /\ temp_in.temp_factor = [num |-> 2, den |-> 1]
    /\ temp_in.raw = [num |-> 0, den |-> 1]
    /\ temp_out = [num |-> 1, den |-> 2]

-----------------------------------------------------------------------------
(* knn(x, k), as called by get_graph_feature and get_neighbors *)

MaxKnnPoints == 3
MaxCoord == 2
MaxK == 2

\* The k both callers pass: "def get_graph_feature(x, k=20)" and
\* "def get_neighbors(x, k=20, idx=None)", never overridden.
GraphK == 20

\* Point clouds of one example: a point per position, points may coincide.
KnnClouds == UNION {[1..N -> [1..1 -> 0..MaxCoord]] : N \in 1..MaxKnnPoints}

Dot(p, q) == SumSeq([d \in DOMAIN p |-> p[d] * q[d]])

SqDistance(x, i, j) ==
    LET inner == 2 * Dot(x[i], x[j])
        xx(n) == Dot(x[n], x[n])
    IN xx(j) - inner + xx(i)

\* "inner = -2 * matmul(x^T, x); xx = sum(x ** 2, dim=1);
\*  distance = -xx - inner - xx^T": minus the squared distance of i and j.
Distance(x, i, j) ==
    LET inner == (0 - 2) * Dot(x[i], x[j])
        xx(n) == Dot(x[n], x[n])
    IN (0 - xx(j)) - inner - xx(i)

\* Tensor.topk(k) over one row: k positions holding the k largest values.
\* Which of several equal values is taken is not specified: every choice is
\* possible.  The model keeps the set of positions of each row.
TopK(row, k) ==
    {S \in SUBSET DOMAIN row :
        /\ Cardinality(S) = k
        /\ \A a \in S, b \in (DOMAIN row) \ S : row[a] >= row[b]}

KnnInit ==
    /\ ProgramIdle /\ KabIdle /\ TempIdle /\ SchIdle /\ Ext2Idle
    /\ knn_in \in [x : KnnClouds, k : (1..MaxK) \cup {GraphK}]
    /\ knn_idx = <<>>
    /\ knn_exc = "none"

\* knn(x, k): topk raises RuntimeError when k exceeds the number of points.
Knn ==
    /\ knn_idx = <<>> /\ knn_exc = "none"
    /\ LET x == knn_in.x
           N == Len(x)
           distance == [i \in 1..N |-> [j \in 1..N |-> Distance(x, i, j)]]
       IN IF knn_in.k > N
          THEN /\ knn_exc' = "RuntimeError"
               /\ knn_idx' = knn_idx
          ELSE /\ knn_exc' = knn_exc
               /\ knn_idx' \in {idx \in [1..N -> SUBSET (1..N)] :
                                   \A i \in 1..N : idx[i] \in TopK(distance[i], knn_in.k)}
    /\ UNCHANGED <<knn_in, kabVars, tempVars, schVars, ext2Vars>>
    /\ ProgramFrame

KnnNext == Knn

SpecKnn == KnnInit /\ [][KnnNext]_vars

KnnCalled == knn_idx # <<>> \/ knn_exc # "none"

\* C14: knn called with k = 20 on a cloud of N < 20 points returns, for
\* every point, a neighbour list capped at N entries, instead of failing.
C14_NeighboursCappedAtN ==
    (KnnCalled /\ knn_in.k = GraphK /\ Len(knn_in.x) < GraphK) =>
        /\ knn_exc = "none"
        /\ DOMAIN knn_idx = DOMAIN knn_in.x
        /\ \A i \in DOMAIN knn_idx : Cardinality(knn_idx[i]) = Len(knn_in.x)

\* Row i holds k indices, and no index left out is strictly nearer to point
\* i than one that was taken.
NearestK(i) ==
    /\ Cardinality(knn_idx[i]) = knn_in.k
    /\ \A a \in knn_idx[i], b \in (DOMAIN knn_in.x) \ knn_idx[i] :
          SqDistance(knn_in.x, i, a) <= SqDistance(knn_in.x, i, b)

Coincident(i) == {j \in DOMAIN knn_in.x : j # i /\ knn_in.x[j] = knn_in.x[i]}

\* C15 as stated: for N >= k points, coincident ones included, knn returns
\* for every point i the k indices of smallest squared distance to i, and i
\* itself is always among them.
C15_SelfAlwaysIncluded ==
    (KnnCalled /\ Len(knn_in.x) >= knn_in.k) =>
        /\ knn_exc = "none"
        /\ \A i \in DOMAIN knn_in.x : NearestK(i) /\ i \in knn_idx[i]

\* C15 amended: for N >= k points knn returns for every point i k distinct
\* indices none of which is farther from i than an index left out; i itself
\* is among them whenever fewer than k other points coincide with point i.
\* With k or more coincident others the k zero distances tie with i's own and
\* topk may leave i out.
C15_SelfIncludedUnlessTied ==
    (KnnCalled /\ Len(knn_in.x) >= knn_in.k) =>
        /\ knn_exc = "none"
        /\ \A i \in DOMAIN knn_in.x :
              /\ NearestK(i)
              /\ Cardinality(Coincident(i)) < knn_in.k => i \in knn_idx[i]

C15_Witness ==
    /\ knn_in.k = 2
    /\ knn_in.x = <<<<0>>, <<2>>, <<1>>>>
    /\ knn_idx = <<{1, 3}, {2, 3}, {1, 3}>>

-----------------------------------------------------------------------------
(* train(): the MultiStepLR schedule and the learning rate of each epoch *)

MaxSchedEpochs == 10

\* "epoch_factor = args.epochs / 100.0" and "int(c * epoch_factor)": the
\* integer part of c * E / 100.  (The code takes it of a floating-point
\* product; for the E of this model the two agree.)
Milestone(c, E) == (c * E) \div 100

\* "milestones=[int(30*epoch_factor), int(60*epoch_factor), int(80*epoch_factor)]"
Milestones(E) == <<Milestone(30, E), Milestone(60, E), Milestone(80, E)>>

MilestonesBelow(milestones, epoch_counter) ==
    Cardinality({i \in DOMAIN milestones : milestones[i] < epoch_counter})

\* MultiStepLR with gamma=0.1: the lr in force is the base lr times
\* gamma^k, k the number of milestones (repeated ones counted each time) that
\* last_epoch has reached.
MilestonesReached(milestones, epoch_counter) ==
    Cardinality({i \in DOMAIN milestones : milestones[i] <= epoch_counter})

\* What the construction of the scheduler leaves in last_epoch depends on
\* the torch release: 0 (1.1 and later), or -1 (up to 1.0, whose constructor
\* resets last_epoch after setting the lr of epoch 0).
BuiltLastEpoch == {0 - 1, 0}

\* train() up to its loop: the optimizer and the scheduler are built, and
\* the lr is that of epoch counter 0.
SchInit ==
    /\ ProgramIdle /\ KabIdle /\ TempIdle /\ KnnIdle /\ Ext2Idle
    /\ sch_in \in [epochs : 0..MaxSchedEpochs, built : BuiltLastEpoch]
    /\ sch_pc = "step"
    /\ sch_epoch = 0
    /\ last_epoch = sch_in.built
    /\ lr_decays = MilestonesReached(Milestones(sch_in.epochs), 0)
    /\ sch_trained = <<>>

SchFrame == UNCHANGED <<kabVars, tempVars, knnVars, ext2Vars>> /\ ProgramFrame

\* "for epoch in range(args.epochs): scheduler.step()"
SchedulerStep ==
    /\ sch_pc = "step"
    /\ IF sch_epoch < sch_in.epochs
       THEN /\ last_epoch' = last_epoch + 1
            /\ lr_decays' = MilestonesReached(Milestones(sch_in.epochs), last_epoch')
            /\ sch_pc' = "train"
       ELSE /\ sch_pc' = "done"
            /\ UNCHANGED <<last_epoch, lr_decays>>
    /\ UNCHANGED <<sch_in, sch_epoch, sch_trained>>
    /\ SchFrame

\* The rest of the loop body: the training epoch runs with the lr in force,
\* then the test epoch and the saves, which leave the lr alone.
SchedTrainEpoch ==
    /\ sch_pc = "train"
    /\ sch_trained' = Append(sch_trained, lr_decays)
    /\ sch_epoch' = sch_epoch + 1
    /\ sch_pc' = "step"
    /\ UNCHANGED <<sch_in, last_epoch, lr_decays>>
    /\ SchFrame

SchNext == SchedulerStep \/ SchedTrainEpoch

SpecSchedule == SchInit /\ [][SchNext]_vars

-----------------------------------------------------------------------------
(* The specifications below leave the driver and the components above idle *)

Ext1Frame == UNCHANGED <<kabVars, tempVars, knnVars, schVars>>

-----------------------------------------------------------------------------
(* _train_one_batch / _test_one_batch: the accumulation of total_loss *)

\* Arithmetic on fractions num / den, den > 0
FracAdd(a, b) == [num |-> a.num * b.den + b.num * a.den, den |-> a.den * b.den]
FracMul(a, b) == [num |-> a.num * b.num, den |-> a.den * b.den]
FracOf(n) == [num |-> n, den |-> 1]

RECURSIVE IntPow(_, _)
IntPow(a, i) == IF i = 0 THEN 1 ELSE a * IntPow(a, i - 1)

DiscountWithoutExponent(discount_factor, i) == discount_factor

\* "self.discount_factor ** i"
Discount(discount_factor, i) ==
    [num |-> IntPow(discount_factor.num, i), den |-> IntPow(discount_factor.den, i)]

\* --discount_factor values strictly between 0 and 1, and the loss weights
\* --feature_alignment_loss, --cycle_consistency_loss
DiscountFactors == {[num |-> 1, den |-> 2], [num |-> 2, den |-> 3]}
FeatureAlignmentWeights == {1, 2}
CycleConsistencyWeights == {1, 3}

\* What one iteration measures before any scaling: the pose error
\* (mse of the accumulated rotation and translation against the ground
\* truth), feature_disparity.mean() and cycle_consistency(...).
RawTerms == [pose : 0..1, disparity : 0..1, cycle : 0..1]

LossInit ==
    /\ ProgramIdle /\ Ext1Idle /\ Ext2IdleExcept("loss")
    /\ loss_in \in [stage : {"train", "test"}, num_iters : 0..MaxIters,
                    discount_factor : DiscountFactors,
                    feature_alignment_loss : FeatureAlignmentWeights,
                    cycle_consistency_loss : CycleConsistencyWeights]
    /\ loss_pc = "loop"
    /\ loss_i = 0
    /\ total_loss = FracOf(0)
    /\ loss_terms = <<>>

LossFrame == ProgramFrame /\ Ext1Frame /\ Ext2Frame("loss")

\* One pass of "for i in range(self.num_iters):", the same lines in both
\* steps:
\*   loss = (mse(R) + mse(t)) * discount_factor**i
\*   feature_alignment_loss = feature_disparity.mean() * w_fa * discount_factor**i
\*   cycle_consistency_loss = cycle_consistency(...) * w_cc * discount_factor**i
\*   scale_consensus_loss = 0
\*   total_loss = total_loss + loss + feature_alignment_loss
\*                + cycle_consistency_loss + scale_consensus_loss
LossIteration ==
    /\ loss_pc = "loop"
    /\ loss_i < loss_in.num_iters
    /\ \E raw \in RawTerms :
          LET d == Discount(loss_in.discount_factor, loss_i)
              loss == FracMul(FracOf(raw.pose), d)
              feature_alignment_loss ==
                  FracMul(FracOf(raw.disparity * loss_in.feature_alignment_loss), d)
              cycle_consistency_loss ==
                  FracMul(FracOf(raw.cycle * loss_in.cycle_consistency_loss), d)
              scale_consensus_loss == FracOf(0)
          IN /\ total_loss' =
                    FracAdd(FracAdd(FracAdd(FracAdd(total_loss, loss),
                                            feature_alignment_loss),
                                    cycle_consistency_loss),
                            scale_consensus_loss)
             /\ loss_terms' = Append(loss_terms, [raw |-> raw, discount |-> d])
    /\ loss_i' = loss_i + 1
    /\ UNCHANGED <<loss_in, loss_pc>>
    /\ LossFrame

\* After the loop: total_loss.backward() and opt.step() in the train step,
\* total_loss.item() in both.  With num_iters = 0 total_loss is still the int
\* 0, which has neither method.
LossReturn ==
    /\ loss_pc = "loop"
    /\ loss_i = loss_in.num_iters
    /\ loss_pc' = IF loss_in.num_iters = 0 THEN "raised" ELSE "returned"
    /\ UNCHANGED <<loss_in, loss_i, total_loss, loss_terms>>
    /\ LossFrame

LossNext == LossIteration \/ LossReturn

SpecLoss == LossInit /\ [][LossNext]_vars

\* The sum, over the iterations run, of discount_factor^i times the
\* unscaled iteration loss, as one fraction over discount_factor.den^(m-1).
RECURSIVE WeightedTermSum(_, _, _)
WeightedTermSum(terms, k, m) ==
    IF k > m THEN 0
    ELSE LET raw == terms[k].raw
             unscaled == raw.pose + loss_in.feature_alignment_loss * raw.disparity
                         + loss_in.cycle_consistency_loss * raw.cycle
         IN unscaled * IntPow(loss_in.discount_factor.num, k - 1)
                     * IntPow(loss_in.discount_factor.den, m - k)
            + WeightedTermSum(terms, k + 1, m)

ExpectedTotal ==
    LET m == Len(loss_terms)
    IN IF m = 0 THEN FracOf(0)
       ELSE [num |-> WeightedTermSum(loss_terms, 1, m),
             den |-> IntPow(loss_in.discount_factor.den, m - 1)]

FracLess(a, b) == a.num * b.den < b.num * a.den

\* C21: in the train and in the test step alike, total_loss is the sum over
\* the iterations i = 0..num_iters-1 of discount_factor^i * (pose_i +
\* w_fa * mean(feature_disparity_i) + w_cc * cycle_i) and nothing else; with
\* 0 < discount_factor < 1 every iteration is weighted strictly less than
\* the one before it.
C21_TotalLossIsDiscountedSum ==
    loss_pc \in {"loop", "returned"} =>
        /\ FracEq(total_loss, ExpectedTotal)
        /\ \A k \in DOMAIN loss_terms :
              /\ FracEq(loss_terms[k].discount,
                        [num |-> IntPow(loss_in.discount_factor.num, k - 1),
                         den |-> IntPow(loss_in.discount_factor.den, k - 1)])
              /\ k > 1 => FracLess(loss_terms[k].discount, loss_terms[k - 1].discount)

C21_Witness ==
    /\ loss_pc = "returned" /\ loss_in.stage = "test" /\ loss_in.num_iters = 2
    /\ loss_in.discount_factor = [num |-> 2, den |-> 3]
    /\ loss_in.feature_alignment_loss = 2 /\ loss_in.cycle_consistency_loss = 3
    /\ loss_terms[1].raw = [pose |-> 1, disparity |-> 1, cycle |-> 1]
    /\ loss_terms[2].raw = [pose |-> 1, disparity |-> 1, cycle |-> 1]
    /\ FracEq(total_loss, [num |-> 10, den |-> 1])

-----------------------------------------------------------------------------
(* _train_one_epoch / _test_one_epoch: the averages of an epoch's record *)

MaxExamples == 6
LoaderBatchSizes == {2, 3}

\* The sizes of the batches a DataLoader over n examples yields in one pass:
\* full batches, then the remainder unless drop_last.
LoaderBatches(n, batch_size, drop_last) ==
    LET full == n \div batch_size
        rest == n % batch_size
    IN [b \in 1..full |-> batch_size]
       \o (IF rest > 0 /\ ~drop_last THEN <<rest>> ELSE <<>>)

\* train_loader is built with drop_last=True, test_loader with drop_last=False
DropLast(stage) == stage = "train"

\* What one batch step returns (loss.item() and the two weighted parts)
BatchLosses == [loss : 0..2, feature_alignment_loss : 0..1, cycle_consistency_loss : 0..1]

UnweightedContribution(loss, batch_size) == loss

\* "loss * batch_size"
Contribution(loss, batch_size) == loss * batch_size

MeanInit ==
    /\ ProgramIdle /\ Ext1Idle /\ Ext2IdleExcept("mean")
    /\ mean_in \in [stage : {"train", "test"}, examples : 0..MaxExamples,
                    batch_size : LoaderBatchSizes]
    /\ mean_pc = "loop"
    /\ mean_batches = <<>>
    /\ mean_num_examples = 0
    /\ mean_total = [loss |-> 0, feature_alignment_loss |-> 0, cycle_consistency_loss |-> 0]
    /\ mean_info = <<>>

MeanFrame == ProgramFrame /\ Ext1Frame /\ Ext2Frame("mean")

Yielded == LoaderBatches(mean_in.examples, mean_in.batch_size, DropLast(mean_in.stage))

\* One pass of "for data in tqdm(loader):": the batch step, then
\* num_examples += batch_size and total_x = total_x + x * batch_size
EpochBatch ==
    /\ mean_pc = "loop"
    /\ Len(mean_batches) < Len(Yielded)
    /\ LET b == Len(mean_batches) + 1
           batch_size == Yielded[b]
       IN \E l \in BatchLosses :
             /\ mean_batches' = Append(mean_batches,
                                       [index |-> b, size |-> batch_size, losses |-> l])
             /\ mean_num_examples' = mean_num_examples + batch_size
             /\ mean_total' =
                   [loss |-> mean_total.loss + Contribution(l.loss, batch_size),
                    feature_alignment_loss |->
                        mean_total.feature_alignment_loss
                        + Contribution(l.feature_alignment_loss, batch_size),
                    cycle_consistency_loss |->
                        mean_total.cycle_consistency_loss
                        + Contribution(l.cycle_consistency_loss, batch_size)]
    /\ UNCHANGED <<mean_in, mean_pc, mean_info>>
    /\ MeanFrame

\* After the loop: avg_x = total_x / num_examples, the info record,
\* self.logger.write(info), return info.  The division raises when no batch
\* was consumed.
EpochRecord ==
    /\ mean_pc = "loop"
    /\ Len(mean_batches) = Len(Yielded)
    /\ IF mean_num_examples = 0
       THEN /\ mean_pc' = "raised"
            /\ UNCHANGED mean_info
       ELSE /\ mean_pc' = "returned"
            /\ mean_info' =
                  [stage |-> mean_in.stage,
                   loss |-> [num |-> mean_total.loss, den |-> mean_num_examples],
                   feature_alignment_loss |->
                       [num |-> mean_total.feature_alignment_loss, den |-> mean_num_examples],
                   cycle_consistency_loss |->
                       [num |-> mean_total.cycle_consistency_loss, den |-> mean_num_examples]]
    /\ UNCHANGED <<mean_in, mean_batches, mean_num_examples, mean_total>>
    /\ MeanFrame

MeanNext == EpochBatch \/ EpochRecord

SpecEpochMean == MeanInit /\ [][MeanNext]_vars

\* Over the batches from position b on: the sum of the sizes ("size") or of
\* the named loss times the size.
RECURSIVE SumOver(_, _, _)
SumOver(batches, b, what) ==
    IF b > Len(batches) THEN 0
    ELSE (IF what = "size" THEN batches[b].size
          ELSE batches[b].losses[what] * batches[b].size)
         + SumOver(batches, b + 1, what)

\* C22: the loss of an epoch's record is sum_b(loss_b * size_b) / sum_b(size_b)
\* over the batches the loader yields, each consumed exactly once and in
\* order, a smaller trailing test batch included; likewise the
\* feature-alignment and the cycle-consistency loss.
C22_RecordIsWeightedMean ==
    mean_pc = "returned" =>
        /\ Len(mean_batches) = Len(Yielded)
        /\ \A b \in DOMAIN mean_batches :
              mean_batches[b].index = b /\ mean_batches[b].size = Yielded[b]
        /\ SumOver(mean_batches, 1, "size") > 0
        /\ FracEq(mean_info.loss,
                  [num |-> SumOver(mean_batches, 1, "loss"),
                   den |-> SumOver(mean_batches, 1, "size")])
        /\ FracEq(mean_info.feature_alignment_loss,
                  [num |-> SumOver(mean_batches, 1, "feature_alignment_loss"),
                   den |-> SumOver(mean_batches, 1, "size")])
        /\ FracEq(mean_info.cycle_consistency_loss,
                  [num |-> SumOver(mean_batches, 1, "cycle_consistency_loss"),
                   den |-> SumOver(mean_batches, 1, "size")])

\* A test epoch over 5 examples in batches of 3: the trailing batch has 2
\* examples, and the mean of the losses 2 and 0 is 6/5, not 1.
C22_Witness ==
    /\ mean_pc = "returned" /\ mean_in.stage = "test"
    /\ mean_in.examples = 5 /\ mean_in.batch_size = 3
    /\ Len(mean_batches) = 2 /\ mean_batches[2].size = 2
    /\ mean_batches[1].losses.loss = 2 /\ mean_batches[2].losses.loss = 0
    /\ FracEq(mean_info.loss, [num |-> 6, den |-> 5])

-----------------------------------------------------------------------------
(* KeyPointNet.forward *)

MaxKeypoints == 2
KpPointCounts == {1, 2, 3}

\* Point n of a cloud, as its column of coordinates; the columns of one
\* cloud are pairwise different and differ between source and target.
SrcCloud(N) == [n \in 1..N |-> <<n, 0, 0>>]
TgtCloud(N) == [n \in 1..N |-> <<0, n, 1>>]

\* Embedding columns: two of equal norm and one longer
EmbeddingColumns == {<<1, 0>>, <<0, 1>>, <<1, 1>>}

KpInputs ==
    UNION {[num_keypoints : 1..MaxKeypoints, src : {SrcCloud(N)}, tgt : {TgtCloud(N)},
            src_embedding : [1..N -> EmbeddingColumns],
            tgt_embedding : [1..N -> EmbeddingColumns]] : N \in KpPointCounts}

\* torch.norm(embedding, dim=1), squared: the order of the norms is the
\* order of their squares
NormSquared(embedding) == [n \in DOMAIN embedding |-> Dot(embedding[n], embedding[n])]

\* The orders in which a set of indices can be returned (sorted=False)
Orderings(S) ==
    {q \in [1..Cardinality(S) -> S] : \A a, b \in DOMAIN q : q[a] = q[b] => a = b}

AnyKIndices(row, k) ==
    UNION {Orderings(S) : S \in {T \in SUBSET DOMAIN row : Cardinality(T) = k}}

\* torch.topk(norm, k=self.num_keypoints, dim=2, sorted=False)[1]
TopKIndices(row, k) == UNION {Orderings(S) : S \in TopK(row, k)}

\* torch.gather(x, dim=2, index=idx.repeat(1, C, 1)): column j of the
\* result is column idx[j] of x, in every channel
Gather(x, idx) == [j \in DOMAIN idx |-> x[idx[j]]]

KpInit ==
    /\ ProgramIdle /\ Ext1Idle /\ Ext2IdleExcept("keypoint")
    /\ kp_in \in KpInputs
    /\ kp_pc = "call"
    /\ kp_idx = <<>>
    /\ kp_out = <<>>

KpFrame == ProgramFrame /\ Ext1Frame /\ Ext2Frame("keypoint")

KeyPointNetForward ==
    /\ kp_pc = "call"
    /\ IF kp_in.num_keypoints > Len(kp_in.src)
       THEN \* topk: "selected index k out of range"
            /\ kp_pc' = "raised"
            /\ UNCHANGED <<kp_idx, kp_out>>
       ELSE \E src_topk_idx \in TopKIndices(NormSquared(kp_in.src_embedding),
                                            kp_in.num_keypoints),
               tgt_topk_idx \in TopKIndices(NormSquared(kp_in.tgt_embedding),
                                            kp_in.num_keypoints) :
               /\ kp_pc' = "returned"
               /\ kp_idx' = [src |-> src_topk_idx, tgt |-> tgt_topk_idx]
               /\ kp_out' = [src_keypoints |-> Gather(kp_in.src, src_topk_idx),
                             tgt_keypoints |-> Gather(kp_in.tgt, tgt_topk_idx),
                             src_embedding |-> Gather(kp_in.src_embedding, src_topk_idx),
                             tgt_embedding |-> Gather(kp_in.tgt_embedding, tgt_topk_idx)]
    /\ UNCHANGED kp_in
    /\ KpFrame

KpNext == KeyPointNetForward

SpecKeypoint == KpInit /\ [][KpNext]_vars

\* The point of a cloud a column of coordinates belongs to
PointOf(cloud, column) == CHOOSE n \in DOMAIN cloud : cloud[n] = column

\* The output columns of one cloud: K different points, none of the points
\* left out has a longer embedding than a point kept, and column j of the
\* embeddings is the embedding of the point column j of the coordinates
\* belongs to.
KeptCorrectly(cloud, embedding, keypoints, kept_embedding) ==
    LET K == kp_in.num_keypoints
        norm == NormSquared(embedding)
        point == [j \in 1..K |-> PointOf(cloud, keypoints[j])]
    IN /\ DOMAIN keypoints = 1..K /\ DOMAIN kept_embedding = 1..K
       /\ \A j \in 1..K : keypoints[j] \in {cloud[n] : n \in DOMAIN cloud}
       /\ \A i, j \in 1..K : point[i] = point[j] => i = j
       /\ \A j \in 1..K : \A n \in (DOMAIN cloud) \ {point[i] : i \in 1..K} :
             norm[point[j]] >= norm[n]
       /\ \A j \in 1..K : kept_embedding[j] = embedding[point[j]]

\* C23: with K <= N, forward keeps for each cloud, from that cloud's
\* embeddings alone, K points of largest embedding norm, and returns
\* coordinates and embeddings of the same point in the same column.
C23_KeypointsAlignedTopK ==
    (kp_pc = "returned" /\ kp_in.num_keypoints <= Len(kp_in.src)) =>
        /\ KeptCorrectly(kp_in.src, kp_in.src_embedding,
                         kp_out.src_keypoints, kp_out.src_embedding)
        /\ KeptCorrectly(kp_in.tgt, kp_in.tgt_embedding,
                         kp_out.tgt_keypoints, kp_out.tgt_embedding)

\* Source and target keep different points, in an order that is not the
\* input order.
C23_Witness ==
    /\ kp_pc = "returned" /\ kp_in.num_keypoints = 2 /\ Len(kp_in.src) = 3
    /\ kp_in.src_embedding = <<(<<1, 0>>), (<<1, 1>>), (<<1, 1>>)>>
    /\ kp_in.tgt_embedding = <<(<<1, 1>>), (<<1, 1>>), (<<0, 1>>)>>
    /\ kp_out.src_keypoints = <<(<<3, 0, 0>>), (<<2, 0, 0>>)>>
    /\ kp_out.tgt_keypoints = <<(<<0, 1, 1>>), (<<0, 2, 1>>)>>

-----------------------------------------------------------------------------
(* Logger *)

MaxLogCalls == 4

\* A run builds two Logger objects over the same file: ACPNet's and PRNet's
LoggerIds == 1..2

\* The records the epoch functions and the training loop hand to write
LogInfos ==
    {[stage |-> "train", epoch |-> 0, loss |-> 2],
     [stage |-> "best_test", epoch |-> 1, loss |-> 1]}

\* The text write builds: '%s:: Stage: %s, Epoch: %d, Loss: %f, ...\n', one
\* line
Format(info) == [stage |-> info.stage, epoch |-> info.epoch, loss |-> info.loss]

OpenTruncating(content) == <<>>

\* open(path, 'a'): the content the file has is kept and every write goes
\* to its end
OpenAppending(content) == content

LgInit ==
    /\ ProgramIdle /\ Ext1Idle /\ Ext2IdleExcept("logger")
    /\ lg_in \in {<<>>, <<ConfigLine, Format([stage |-> "test", epoch |-> 0, loss |-> 3])>>}
    /\ lg_file = lg_in
    /\ lg_args_file = <<>>
    /\ lg_loggers = [l \in LoggerIds |-> "none"]
    /\ lg_calls = <<>>
    /\ lg_stdout = <<>>

LgFrame == ProgramFrame /\ Ext1Frame /\ Ext2Frame("logger")

\* Logger.__init__: open for appending, write str(args) and '\n', flush,
\* print, and rewrite args.txt
LoggerConstruct ==
    /\ Len(lg_calls) < MaxLogCalls
    /\ \E l \in LoggerIds :
          /\ lg_loggers[l] = "none"
          /\ \A m \in LoggerIds : m < l => lg_loggers[m] # "none"
          /\ lg_loggers' = [lg_loggers EXCEPT ![l] = "open"]
          /\ lg_calls' = Append(lg_calls, [op |-> "construct", logger |-> l,
                                           was |-> "none", info |-> NoInfo])
    /\ lg_file' = Append(OpenAppending(lg_file), ConfigLine)
    /\ lg_stdout' = Append(lg_stdout, ConfigLine)
    /\ lg_args_file' = <<"args">>
    /\ UNCHANGED lg_in
    /\ LgFrame

\* Logger.write: format, self.fw.write(text), self.fw.flush(), print(text);
\* writing to a closed file raises ValueError
LoggerWriteInfo ==
    /\ Len(lg_calls) < MaxLogCalls
    /\ \E l \in LoggerIds, info \in LogInfos :
          /\ lg_loggers[l] # "none"
          /\ lg_calls' = Append(lg_calls, [op |-> "write", logger |-> l,
                                           was |-> lg_loggers[l], info |-> info])
          /\ IF lg_loggers[l] = "open"
             THEN /\ lg_file' = Append(lg_file, Format(info))
                  /\ lg_stdout' = Append(lg_stdout, Format(info))
             ELSE UNCHANGED <<lg_file, lg_stdout>>
    /\ UNCHANGED <<lg_in, lg_args_file, lg_loggers>>
    /\ LgFrame

\* Logger.close
LoggerClose ==
    /\ Len(lg_calls) < MaxLogCalls
    /\ \E l \in LoggerIds :
          /\ lg_loggers[l] # "none"
          /\ lg_calls' = Append(lg_calls, [op |-> "close", logger |-> l,
                                           was |-> lg_loggers[l], info |-> NoInfo])
          /\ lg_loggers' = [lg_loggers EXCEPT ![l] = "closed"]
    /\ UNCHANGED <<lg_in, lg_file, lg_args_file, lg_stdout>>
    /\ LgFrame

\* The process ends and the experiment is started again: the Logger objects
\* are gone, the files stay
LoggerNextRun ==
    /\ Len(lg_calls) < MaxLogCalls
    /\ \E l \in LoggerIds : lg_loggers[l] # "none"
    /\ lg_calls' = Append(lg_calls, [op |-> "exit", logger |-> 0,
                                     was |-> "none", info |-> NoInfo])
    /\ lg_loggers' = [l \in LoggerIds |-> "none"]
    /\ UNCHANGED <<lg_in, lg_file, lg_args_file, lg_stdout>>
    /\ LgFrame

LgNext == LoggerConstruct \/ LoggerWriteInfo \/ LoggerClose \/ LoggerNextRun

SpecLogger == LgInit /\ [][LgNext]_vars

\* The lines the calls from position c on must have added, in call order
RECURSIVE LinesAdded(_, _)
LinesAdded(called, c) ==
    IF c > Len(called) THEN <<>>
    ELSE (IF called[c].op = "construct" THEN <<ConfigLine>>
          ELSE IF called[c].op = "write" /\ called[c].was = "open"
               THEN <<Format(called[c].info)>>
               ELSE <<>>)
         \o LinesAdded(called, c + 1)

\* C24: the log is what earlier runs left, followed by one configuration
\* line per Logger construction and one formatted line per write, in call
\* order; nothing is removed or rewritten, also when the experiment is run
\* again.
C24_LogIsAppendOnly ==
    lg_calls # <<>> => lg_file = lg_in \o LinesAdded(lg_calls, 1)

C24_Witness ==
    /\ Len(lg_in) = 2 /\ Len(lg_calls) = 4
    /\ lg_calls[1].op = "construct" /\ lg_calls[2].op = "write"
    /\ lg_calls[3].op = "exit" /\ lg_calls[4].op = "construct"
    /\ Len(lg_file) = 5
    /\ lg_file[4] = Format(lg_calls[2].info)

-----------------------------------------------------------------------------
(* Component choice: argparse, ACPNet.__init__, SVDHead.forward *)

\* The variants the code knows, per option, and one value it does not know
EmbNNChoices == {"pointnet", "FE"}
AttentionChoices == {"identity", "transformer"}
HeadChoices == {"mlp", "svd"}
CatSamplerChoices == {"softmax", "gumbel_softmax"}
Unknown == "other"
Absent == "absent"

\* A command line: per option the value given or Absent, and whether the
\* flag --svd_on_gpu is given
CommandLines ==
    [emb_nn : EmbNNChoices \cup {Unknown, Absent},
     attention : AttentionChoices \cup {Unknown, Absent},
     head : HeadChoices \cup {Unknown, Absent},
     cat_sampler : CatSamplerChoices \cup {Unknown, Absent},
     svd_on_gpu : BOOLEAN]

\* An args namespace handed to ACPNet by other code than main
Namespaces ==
    [emb_nn : EmbNNChoices \cup {Unknown},
     attention : AttentionChoices \cup {Unknown},
     head : HeadChoices \cup {Unknown},
     cat_sampler : CatSamplerChoices \cup {Unknown},
     svd_on_gpu : BOOLEAN]

NoNamespace ==
    [emb_nn |-> Absent, attention |-> Absent, head |-> Absent, cat_sampler |-> Absent,
     svd_on_gpu |-> FALSE]

NoComponents == [emb_nn |-> "none", attention |-> "none", head |-> "none"]
NoPath == [sampler |-> "none", svd |-> "none"]

\* add_argument(..., default=d, choices=c): the value given, or the default
Parsed(given, default) == IF given = Absent THEN default ELSE given

StoreTrueDefaultFalse(given, default) == given

\* add_argument(..., action='store_true', default=d): True when the flag is
\* given, the default when it is not
StoreTrue(given, default) == IF given THEN TRUE ELSE default

CfgInit ==
    /\ ProgramIdle /\ Ext1Idle /\ Ext2IdleExcept("config")
    /\ \/ /\ cfg_in \in [by : {"main"}, line : CommandLines]
          /\ cfg_pc = "parse"
          /\ cfg_args = NoNamespace
       \/ /\ cfg_in \in [by : {"direct"}, line : {NoNamespace}]
          /\ cfg_pc = "construct"
          /\ cfg_args \in Namespaces
    /\ cfg_built = NoComponents
    /\ cfg_path = NoPath

CfgFrame == ProgramFrame /\ Ext1Frame /\ Ext2Frame("config")

\* main: parser.parse_args().  A value outside an option's choices ends the
\* process with a usage error.
ParseArgs ==
    /\ cfg_pc = "parse"
    /\ LET line == cfg_in.line
       IN IF \/ line.emb_nn = Unknown \/ line.attention = Unknown
             \/ line.head = Unknown \/ line.cat_sampler = Unknown
          THEN /\ cfg_pc' = "exited"
               /\ UNCHANGED cfg_args
          ELSE /\ cfg_pc' = "construct"
               /\ cfg_args' = [emb_nn |-> Parsed(line.emb_nn, "FE"),
                               attention |-> Parsed(line.attention, "transformer"),
                               head |-> Parsed(line.head, "svd"),
                               cat_sampler |-> Parsed(line.cat_sampler, "gumbel_softmax"),
                               svd_on_gpu |-> StoreTrue(line.svd_on_gpu, TRUE)]
    /\ UNCHANGED <<cfg_in, cfg_built, cfg_path>>
    /\ CfgFrame

EmbNNOrDefault(name) == IF name = "pointnet" THEN "PointNet" ELSE "Feature_Extration"

\* The class each if/elif chain of ACPNet.__init__ instantiates, "raise"
\* for its else branch
EmbNNClass(name) ==
    IF name = "pointnet" THEN "PointNet"
    ELSE IF name = "FE" THEN "Feature_Extration" ELSE "raise"
AttentionClass(name) ==
    IF name = "identity" THEN "Identity"
    ELSE IF name = "transformer" THEN "Transformer" ELSE "raise"
HeadClass(name) ==
    IF name = "mlp" THEN "MLPHead"
    ELSE IF name = "svd" THEN "SVDHead" ELSE "raise"

\* ACPNet.__init__: the three chains in order; the first else branch
\* reached raises Exception('Not implemented') and leaves the later
\* components unassigned
ACPNetInit ==
    /\ cfg_pc = "construct"
    /\ LET e == EmbNNClass(cfg_args.emb_nn)
           a == AttentionClass(cfg_args.attention)
           h == HeadClass(cfg_args.head)
       IN IF e = "raise"
          THEN /\ cfg_pc' = "raised"
               /\ cfg_built' = cfg_built
          ELSE IF a = "raise"
          THEN /\ cfg_pc' = "raised"
               /\ cfg_built' = [cfg_built EXCEPT !.emb_nn = e]
          ELSE IF h = "raise"
          THEN /\ cfg_pc' = "raised"
               /\ cfg_built' = [cfg_built EXCEPT !.emb_nn = e, !.attention = a]
          ELSE /\ cfg_pc' = "forward"
               /\ cfg_built' = [emb_nn |-> e, attention |-> a, head |-> h]
    /\ UNCHANGED <<cfg_in, cfg_args, cfg_path>>
    /\ CfgFrame

\* SVDHead.forward: the cat_sampler chain, then "if self.on_gpu:"
SVDHeadForward ==
    /\ cfg_pc = "forward"
    /\ cfg_built.head = "SVDHead"
    /\ IF cfg_args.cat_sampler \in {"softmax", "gumbel_softmax"}
       THEN /\ cfg_pc' = "done"
            /\ cfg_path' = [sampler |-> cfg_args.cat_sampler,
                            svd |-> IF cfg_args.svd_on_gpu THEN "on_gpu" ELSE "on_cpu"]
       ELSE /\ cfg_pc' = "raised"
            /\ UNCHANGED cfg_path
    /\ UNCHANGED <<cfg_in, cfg_args, cfg_built>>
    /\ CfgFrame

\* MLPHead.forward reads neither cat_sampler nor svd_on_gpu
MLPHeadForward ==
    /\ cfg_pc = "forward"
    /\ cfg_built.head = "MLPHead"
    /\ cfg_pc' = "done"
    /\ UNCHANGED <<cfg_in, cfg_args, cfg_built, cfg_path>>
    /\ CfgFrame

CfgNext == ParseArgs \/ ACPNetInit \/ SVDHeadForward \/ MLPHeadForward

SpecConfig == CfgInit /\ [][CfgNext]_vars

ConstructionOver == cfg_pc \in {"forward", "done", "raised"}

\* C25: an emb_nn, attention or head that is not one of the known names
\* makes ACPNet's construction raise, and an SVD head with an unknown
\* cat_sampler raises in forward; a component that is built is the one
\* asked for, never a substitute.
C25_UnsupportedChoiceRaises ==
    /\ (ConstructionOver /\ (\/ cfg_args.emb_nn \notin EmbNNChoices
                             \/ cfg_args.attention \notin AttentionChoices
                             \/ cfg_args.head \notin HeadChoices))
          => (cfg_pc = "raised" /\ cfg_built.head = "none")
    /\ (cfg_pc \in {"done", "raised"} /\ cfg_built.head = "SVDHead"
          /\ cfg_args.cat_sampler \notin CatSamplerChoices)
          => (cfg_pc = "raised" /\ cfg_path = NoPath)
    /\ cfg_built.emb_nn # "none" =>
          cfg_built.emb_nn = (IF cfg_args.emb_nn = "pointnet" THEN "PointNet"
                              ELSE "Feature_Extration") /\ cfg_args.emb_nn \in EmbNNChoices
    /\ cfg_built.attention # "none" =>
          cfg_built.attention = (IF cfg_args.attention = "identity" THEN "Identity"
                                 ELSE "Transformer") /\ cfg_args.attention \in AttentionChoices
    /\ cfg_built.head # "none" =>
          cfg_built.head = (IF cfg_args.head = "mlp" THEN "MLPHead" ELSE "SVDHead")
          /\ cfg_args.head \in HeadChoices
    /\ cfg_path.sampler # "none" => cfg_path.sampler = cfg_args.cat_sampler

\* An SVD head built with an unknown sampler: construction passes, forward
\* raises.
C25_Witness ==
    /\ cfg_in.by = "direct" /\ cfg_pc = "raised"
    /\ cfg_built = [emb_nn |-> "Feature_Extration", attention |-> "Transformer",
                    head |-> "SVDHead"]
    /\ cfg_args.cat_sampler = Unknown

\* C30: whatever command line main accepts, with or without --svd_on_gpu,
\* args.svd_on_gpu is true, and an SVD head built from it takes the
\* "if self.on_gpu:" branch, never the else branch that adds 1e-7 * I.
C30_SvdAlwaysOnGpuThroughMain ==
    (cfg_in.by = "main" /\ cfg_pc \notin {"parse", "exited"}) =>
        /\ cfg_args.svd_on_gpu = TRUE
        /\ cfg_path.svd # "on_cpu"
        /\ (cfg_pc = "done" /\ cfg_built.head = "SVDHead") => cfg_path.svd = "on_gpu"

\* The flag is not on the command line and the SVD head has run.
C30_Witness ==
    /\ cfg_in.by = "main" /\ ~cfg_in.line.svd_on_gpu /\ cfg_in.line.head = Absent
    /\ cfg_pc = "done" /\ cfg_built.head = "SVDHead"
    /\ cfg_path = [sampler |-> "gumbel_softmax", svd |-> "on_gpu"]

-----------------------------------------------------------------------------
(* train(): the best record and the best checkpoint *)

\* The 'best_test' line appended at the end of epoch e: the (e+1)-th such
\* line of the log
BestLine(e) ==
    CHOOSE i \in LinesOf("best_test") :
        Cardinality({j \in LinesOf("best_test") : j < i}) = e

BestLinesWritten == Cardinality(LinesOf("best_test"))

\* The smallest test loss of epochs 0..e and the first epoch that had it
MinTestLoss(e) ==
    CHOOSE l \in {TestLoss(d) : d \in 0..e} : \A d \in 0..e : l <= TestLoss(d)
FirstAttaining(e) ==
    CHOOSE d \in 0..e :
        /\ TestLoss(d) = MinTestLoss(e)
        /\ \A c \in 0..(d - 1) : TestLoss(c) # MinTestLoss(e)

\* The loop body of an epoch has written its 'best_test' line and no later
\* epoch has reached its best-checkpoint decision
AfterBestLine ==
    /\ train_calls = 1
    /\ BestLinesWritten > 0
    /\ pc \in {"save_epoch", "loop_head", "train_begin", "train_batches",
               "test_begin", "test_batches", "best_check", "finish", "done"}

\* C26: the 'best_test' line written at the end of epoch e carries the
\* smallest test loss of epochs 0..e and the first epoch that had it, and
\* model.best.t7 then holds the parameters as they were when that epoch's
\* training ended.
C26_BestLineAndCheckpoint ==
    /\ \A e \in 0..(BestLinesWritten - 1) :
          /\ log[BestLine(e)].loss = MinTestLoss(e)
          /\ log[BestLine(e)].epoch = FirstAttaining(e)
    /\ AfterBestLine =>
          LET best == FirstAttaining(BestLinesWritten - 1)
          IN /\ Exists(BestPath)
             /\ fs[BestPath].base = acpnet.base
             /\ fs[BestPath].steps = (best + 1) * loaders.train

\* Test losses 2, 1, 1: after the third epoch the line still names epoch 1,
\* and the file is the one saved then, older than the current parameters.
C26_Witness ==
    /\ pc = "loop_head" /\ epoch = 3 /\ BestLinesWritten = 3
    /\ <<TestLoss(0), TestLoss(1), TestLoss(2)>> = <<2, 1, 1>>
    /\ log[BestLine(2)].epoch = 1 /\ log[BestLine(2)].loss = 1
    /\ fs[BestPath].steps = 2 * loaders.train
    /\ acpnet.steps = 3 * loaders.train

-----------------------------------------------------------------------------
(* predict, _train_one_batch, _test_one_batch: the working source cloud *)

\* C27: after every iteration the working source cloud is the cloud the
\* caller passed, every point p of it moved to R_acc.p + t_acc by the
\* accumulated A->B transform (transform_point_cloud rotating, then
\* translating).  The three functions run the same three statements per
\* iteration.
C27_WorkingCloudIsAccumulatedTransform ==
    p_pc \in {"loop", "returned"} =>
        /\ DOMAIN p_src = DOMAIN p_src0
        /\ \A n \in DOMAIN p_src0 :
              p_src[n] = VecAdd(MatVec(rotation_ab_pred, p_src0[n]), translation_ab_pred)

\* Two iterations whose rotations do not commute, each with a translation.
C27_Witness ==
    /\ p_pc = "returned" /\ p_i = 2
    /\ p_src0 = <<(<<1, 2, 3>>), (<<0, 0, 1>>)>>
    /\ p_steps = <<(<<RotZ, (<<1, 0, 0>>)>>), (<<RotX, (<<0, 1, 0>>)>>)>>
    /\ p_src # p_src0
    /\ p_src[1] = VecAdd(MatVec(RotX, VecAdd(MatVec(RotZ, p_src0[1]), <<1, 0, 0>>)),
                         <<0, 1, 0>>)

-----------------------------------------------------------------------------
(* train(): a loader that yields no batch *)

PastTrainEpoch == {"test_begin", "test_batches", "best_check", "log_best", "save_epoch"}
PastTestEpoch == {"best_check", "log_best", "save_epoch"}

-----------------------------------------------------------------------------
(* main(): which checkpoint is read *)

Constructed == pc \notin {"_init_", "construct"}

\* C29: in evaluation mode with an empty model_path main only asks whether
\* model.best.t7 exists; the parameters stay as construction left them,
\* whether or not the file is there.  Parameters come from a checkpoint
\* only through the constructor's load of a non-empty model_path.
C29_BestPathOnlyTestedForExistence ==
    /\ (args.eval /\ args.model_path = "" /\ Constructed) =>
          /\ acpnet.base = FreshParams.base /\ acpnet.steps = FreshParams.steps
          /\ exc = "none"
          /\ fs[BestPath] \in {NoFile, PretrainedFile}
    /\ (args.model_path = "" /\ Constructed) => acpnet.base = FreshParams.base
    /\ acpnet.base = PretrainedFile.base =>
          args.model_path # "" /\ Exists(UserPath) /\ Constructed

\* The best checkpoint of an earlier run is there, main prints FINISH, and
\* the parameters are the freshly built ones.
C29_Witness ==
    /\ args.eval /\ args.model_path = "" /\ fs[BestPath] = PretrainedFile
    /\ pc = "done" /\ Printed("FINISH")
    /\ acpnet.base = FreshParams.base

====
